---- MODULE Spec2Model ----
(***************************************************************************)
(* Model of the Ragnok mouse driver: src/src/backend.py (framing codec,    *)
(* HidDevice transport, Backend session) and the parts of                  *)
(* src/src/frontend.py that drive it (TrayApp.tick, the macro dialog, the  *)
(* menu handlers).                                                         *)
(*                                                                         *)
(* The specifications share the module's variables:                        *)
(*   ScanSpec  one transceive_expect exchange over concrete byte reads     *)
(*             (checksum_0x55, _read_any_valid17, the reply loop);         *)
(*   Spec      the session: threads, the HidDevice lock, auto_connect,     *)
(*             the synchronous reads and the asynchronous workers;         *)
(*   RaceSpec  the session under the tick and the DPI menu, more events;   *)
(*   ConnSpec  the session under the tick alone, more device faults;       *)
(*   MacroSpec the session under the macro dialog alone;                   *)
(*   ReadSpec  the tick alone over a mouse whose memory may hold a record  *)
(*             with a wrong checksum byte, with the clock moving;          *)
(*   SleepSpec the tick and the macro dialog, with the clock moving;       *)
(*   WriteSpec the tick and calls of _write_checked / _write_raw with data *)
(*             of any length;                                              *)
(*   LiveSpec  RaceSpec over fewer events, with the threads inside an      *)
(*             exchange running on (weak fairness);                        *)
(*   RecordSpec the macro dialog over short and long texts;                *)
(*   LateSpec  the tick alone, with replies that arrive after the deadline *)
(*             and wait in the hidraw input;                               *)
(*   LedSpec   the tick and the two LED operations;                        *)
(*   DpiSpec   the tick and set_dpi_async with any argument, over a mouse  *)
(*             whose level selector may hold any byte.                     *)
(***************************************************************************)
EXTENDS Integers, Sequences, FiniteSets, TLC

VARIABLES
    \* ---- one exchange over concrete bytes (ScanSpec) ----
    reads,        \* what successive os.read(fd, 64) calls return within the timeout
                  \* (in LateSpec: the frames that wait unread in the hidraw input)
    ri,           \* number of reads consumed so far
    expect_cmd,   \* transceive_expect's expect_cmd
    spc,          \* position in transceive_expect: "write" | "loop" | "done"
    pkt,          \* what the last _read_any_valid17 returned (<<>> is None)
    rx,           \* what transceive_expect returned (<<>> is None)
    \* ---- the session (Spec) ----
    devices,      \* Backend.devices: the candidate paths of the last enumeration
    dev,          \* Backend.dev: 0 is None, otherwise the index of a HidDevice in objs
    objs,         \* every HidDevice constructed so far: path, fd, lock
    thr,          \* per thread (0 is the GLib main loop): operation, position, locals
    cache,        \* Backend's cached feature fields
    last_rx_time, \* Backend.last_rx_time
    now,          \* time.monotonic()
    idleq,        \* GLib idle queue: callbacks scheduled with GLib.idle_add
    flash,        \* the mouse's flash registers, by address
    nhid,         \* number of /dev/hidraw* entries present
    budget,       \* main-loop events (ticks, dialogs, menu clicks) still to come
    faults        \* device faults still to come (no reply, I/O error, failed open)

scanvars == <<reads, ri, expect_cmd, spc, pkt, rx>>
sessvars == <<devices, dev, objs, thr, cache, last_rx_time, now, idleq, flash, nhid, budget, faults>>
vars == <<scanvars, sessvars>>

None == <<>>

(***************************************************************************)
(* Framing codec                                                           *)
(***************************************************************************)
RECURSIVE SumBytes(_)
SumBytes(s) ==
    IF s = <<>> THEN 0
    ELSE IF Len(s) = 1 THEN s[1]
    ELSE LET h == Len(s) \div 2
         IN  SumBytes(SubSeq(s, 1, h)) + SumBytes(SubSeq(s, h + 1, Len(s)))

\* checksum_0x55: (0x55 - (sum(data) & 0xFF)) & 0xFF
checksum_0x55(data) == (85 - (SumBytes(data) % 256)) % 256

\* pack17: payload16 + checksum over the 16 bytes
pack17(payload16) == Append(payload16, checksum_0x55(payload16))

FRAME_LEN == 17
READ_MAX == 64

\* data[i:i+17] of the source, i counted from 0
Window(data, i) == SubSeq(data, i + 1, i + FRAME_LEN)

\* checksum_0x55(pkt[:16]) == pkt[16]
WindowValid(w) == checksum_0x55(SubSeq(w, 1, FRAME_LEN - 1)) = w[FRAME_LEN]

\* a scan that stops one offset early: range(0, len(data) - 17)
ScanOffsetsShort(data) == 0 .. (Len(data) - FRAME_LEN - 1)

\* range(0, len(data) - 17 + 1)
ScanOffsets(data) == 0 .. (Len(data) - FRAME_LEN)

\* the part of HidDevice._read_any_valid17 after os.read: the first window,
\* in offset order, whose checksum validates; the op code is not looked at
ReadAnyValid17(data) ==
    IF Len(data) < FRAME_LEN THEN None
    ELSE LET ok == {i \in ScanOffsets(data) : WindowValid(Window(data, i))}
         IN  IF ok = {} THEN None
             ELSE Window(data, CHOOSE i \in ok : \A j \in ok : i <= j)

(***************************************************************************)
(* Byte material for the reads of ScanSpec                                 *)
(***************************************************************************)
Zeros(n) == [k \in 1..n |-> 0]

\* a well-formed reply frame: family 0x08, op code, one data byte at offset 6
Reply(op, d) == pack17(<<8, op>> \o Zeros(4) \o <<d>> \o Zeros(9))

OpCodes == {4, 7, 8}
ReplyData == {0, 75}
ReplyFrames == {Reply(op, d) : op \in OpCodes, d \in ReplyData}

\* 17 bytes <<c0, c1, 0, ..., 0, c16>>; kept when the checksum is wrong
JunkBytes == {0, 8, 77}
CorruptWindows ==
    {w \in {<<c0, c1>> \o Zeros(14) \o <<c16>> : c0 \in JunkBytes, c1 \in JunkBytes, c16 \in JunkBytes} :
        ~WindowValid(w)}

SplitPoints == {1, 9, 16}

\* the reads of one exchange: a frame alone, two frames concatenated in one
\* read, a corrupted window followed by a frame, a frame split over two
\* reads, a short read followed by a frame, and nothing at all
ReadStreams ==
    {<< >>}
    \cup {<<f>> : f \in ReplyFrames}
    \cup {<<f \o g>> : f \in ReplyFrames, g \in ReplyFrames}
    \cup {<<c \o f>> : c \in CorruptWindows, f \in ReplyFrames}
    \cup {<<SubSeq(f, 1, k), SubSeq(f, k + 1, FRAME_LEN)>> : f \in ReplyFrames, k \in SplitPoints}
    \cup {<<SubSeq(f, 1, k), g>> : f \in ReplyFrames, g \in ReplyFrames, k \in {9}}

(***************************************************************************)
(* HidDevice.transceive_expect over concrete reads                         *)
(***************************************************************************)
ScanInit ==
    /\ reads \in ReadStreams
    /\ expect_cmd \in OpCodes
    /\ ri = 0
    /\ spc = "write"
    /\ pkt = None
    /\ rx = None

\* os.write(self.fd, tx17); end = time.monotonic() + timeout
XWrite ==
    /\ spc = "write"
    /\ spc' = "loop"
    /\ UNCHANGED <<reads, ri, expect_cmd, pkt, rx, sessvars>>

\* one iteration of the reply loop in which select reports readable bytes:
\* pkt = self._read_any_valid17(0.05); if pkt and pkt[1] == expect_cmd: return pkt
XRead ==
    /\ spc = "loop"
    /\ ri < Len(reads)
    /\ LET data == reads[ri + 1]
           p == ReadAnyValid17(data)
       IN  /\ Len(data) <= READ_MAX
           /\ pkt' = p
           /\ ri' = ri + 1
           /\ IF p # None /\ p[2] = expect_cmd
              THEN /\ rx' = p
                   /\ spc' = "done"
              ELSE /\ rx' = rx
                   /\ spc' = "loop"
    /\ UNCHANGED <<reads, expect_cmd, sessvars>>

\* the deadline passes with nothing more to read: return None
XTimeout ==
    /\ spc = "loop"
    /\ ri = Len(reads)
    /\ spc' = "done"
    /\ rx' = None
    /\ UNCHANGED <<reads, ri, expect_cmd, pkt, sessvars>>

ScanNext == XWrite \/ XRead \/ XTimeout

(***************************************************************************)
(* Register map and command encoder (semantic content of the frames)       *)
(***************************************************************************)
DPI_LEVEL_SELECT_ADDR == 4
DPI_LEVEL_BASE_ADDR == 12
DPI_LEVEL_STRIDE == 4
DPI_LEVEL_COUNT == 5
POLLING_RATE_ADDR == 0
MOTION_SYNC_ADDR == 171
ANGLE_SNAP_ADDR == 175
RIPPLE_CONTROL_ADDR == 177
LED_CONFIG_ADDR == 160
LED_APPLY_ADDR == 167
BUTTON_MAP_ADDR == 112
BTN4_BIND_DATA == <<6, 4, 1>>
BTN4_UNBIND_DATA == <<6, 4, 254>>
MACRO_SLOT0_ADDR == 2304
MACRO_RECORD_LEN == 384
CHUNK_LEN == 10
SLEEP_TIMEOUT == 5

Min(a, b) == IF a < b THEN a ELSE b
Max(a, b) == IF a > b THEN a ELSE b

\* cmd_read_battery / cmd_read_flash / cmd_write_0807_checked / cmd_write_0807_raw:
\* op code, address, count field and data bytes of the frame; expect is the
\* reply op code the caller passes to transceive_expect
cmd_read_battery == [cmd |-> 4, style |-> "battery", addr |-> 0, count |-> 0, data |-> <<>>]
cmd_read_flash(addr, count) ==
    [cmd |-> 8, style |-> "read", addr |-> addr, count |-> count % 256, data |-> <<>>]
\* what a frame builder gives when it raises ValueError instead of returning
ValueError == [cmd |-> 0, style |-> "ValueError", addr |-> 0, count |-> 0, data |-> <<>>]

\* a variant of cmd_write_0807_checked without the length test
cmd_write_0807_checked_any(addr, data) ==
    [cmd |-> 7, style |-> "checked", addr |-> addr, count |-> (Len(data) + 1) % 256,
     data |-> Append(data, checksum_0x55(data))]

cmd_write_0807_checked(addr, data) ==
    IF Len(data) > 9 THEN ValueError
    ELSE [cmd |-> 7, style |-> "checked", addr |-> addr, count |-> (Len(data) + 1) % 256,
          data |-> Append(data, checksum_0x55(data))]
cmd_write_0807_raw(addr, data) ==
    IF Len(data) > 10 THEN ValueError
    ELSE [cmd |-> 7, style |-> "raw", addr |-> addr, count |-> Len(data) % 256, data |-> data]

(***************************************************************************)
(* The mouse: flash registers by address, and what it answers              *)
(***************************************************************************)
Rec(data) == Append(data, checksum_0x55(data))

\* addresses of the registers of the register map (the macro slot is apart)
FlashAddrs ==
    (0 .. 1) \cup {4} \cup (12 .. 31) \cup (112 .. 115) \cup (160 .. 169)
    \cup (171 .. 172) \cup (175 .. 178)

\* the bytes of seq laid out from address base
Layout(base, seq) == [a \in base .. (base + Len(seq) - 1) |-> seq[a - base + 1]]

Overlay(f, g) == [a \in DOMAIN f |-> IF a \in DOMAIN g THEN g[a] ELSE f[a]]

\* factory contents: 1000 Hz, the given active DPI level, five DPI slots, LED
\* mode 1, toggles off, button 4 unbound
FactoryFlash(level) ==
    LET blank == [a \in FlashAddrs |-> 255]
        f1 == Overlay(blank, Layout(POLLING_RATE_ADDR, Rec(<<4>>)))
        f2 == Overlay(f1, Layout(DPI_LEVEL_SELECT_ADDR, <<level>>))
        f3 == Overlay(f2, Layout(12, Rec(<<4, 4, 0>>)))
        f4 == Overlay(f3, Layout(16, Rec(<<8, 8, 0>>)))
        f5 == Overlay(f4, Layout(20, Rec(<<16, 16, 0>>)))
        f6 == Overlay(f5, Layout(24, Rec(<<32, 32, 0>>)))
        f7 == Overlay(f6, Layout(28, Rec(<<64, 64, 0>>)))
        f8 == Overlay(f7, Layout(BUTTON_MAP_ADDR, Rec(BTN4_UNBIND_DATA)))
        f9 == Overlay(f8, Layout(LED_CONFIG_ADDR, Rec(<<1, 255, 0, 0, 4, 9>>) \o <<0, 0, 0>>))
        fa == Overlay(f9, Layout(MOTION_SYNC_ADDR, Rec(<<0>>)))
        fb == Overlay(fa, Layout(ANGLE_SNAP_ADDR, Rec(<<0>>)))
    IN  Overlay(fb, Layout(RIPPLE_CONTROL_ADDR, Rec(<<1>>)))

Mem(f, a) == IF a \in DOMAIN f THEN f[a] ELSE 255

NoReply == [ok |-> FALSE, data |-> <<>>]

BatteryLevels == {57}

\* the replies the mouse may give to a request it processes: rx[6:6+count]
DevReplies(f, req) ==
    IF req.style = "battery" THEN {[ok |-> TRUE, data |-> <<b>>] : b \in BatteryLevels}
    ELSE IF req.style = "read"
         THEN {[ok |-> TRUE, data |-> [k \in 1 .. req.count |-> Mem(f, req.addr + k - 1)]]}
         ELSE {[ok |-> TRUE, data |-> <<>>]}

\* the flash after the mouse processed a request: a write stores its count
\* bytes; the contents of the macro slot are not kept
DevFlash(f, req) ==
    IF req.cmd = 7 /\ req.addr < MACRO_SLOT0_ADDR
    THEN Overlay(f, Layout(req.addr, req.data))
    ELSE f

(***************************************************************************)
(* Session state                                                           *)
(***************************************************************************)
NWorkers == 2     \* worker threads alive at once
NPaths == 2       \* /dev/hidraw* entries that may exist
MaxObjs == 3      \* HidDevice objects constructed in one run
MaxOps == 2       \* main-loop events (ticks, dialogs, menu clicks) in one run
MaxFaults == 1    \* device faults in one run

Main == 0
Workers == 1 .. NWorkers
Threads == 0 .. NWorkers
NoThread == 0 - 1
Paths == 1 .. NPaths

\* list_hidraw: the entries present, sorted by path
RECURSIVE SortedSeq(_)
SortedSeq(S) ==
    IF S = {} THEN <<>>
    ELSE LET m == CHOOSE x \in S : \A y \in S : x <= y
         IN  <<m>> \o SortedSeq(S \ {m})

list_hidraw == SortedSeq(1 .. nhid)

IdleRec ==
    [op |-> "idle", pc |-> "idle", ac |-> FALSE, i |-> 0, ci |-> 0, cands |-> <<>>,
     obj |-> 0, pend |-> NoReply, res |-> NoReply, exc |-> "none", caught |-> "none",
     ok |-> FALSE, loc |-> <<>>, arg |-> <<>>,
     io |-> 0, nc0 |-> FALSE, nc |-> FALSE, cbs |-> 0, cbval |-> FALSE, mine |-> {},
     log |-> <<>>, ahead |-> {}]

\* Backend.__init__
InitCache ==
    [dpi_value |-> 0 - 1, battery_percent |-> 0 - 1, polling_hz |-> 0 - 1,
     ripple_control |-> FALSE, angle_snap |-> FALSE, motion_sync |-> FALSE,
     led_mode |-> 0 - 1, led_r |-> 0, led_g |-> 0, led_b |-> 0,
     led_speed |-> 0, led_brightness |-> 0, btn4_macro_bound |-> FALSE]

ActiveLevels == {1}

\* Backend.__init__, with the mouse's memory one of F
SessStart(F) ==
    /\ nhid \in 0 .. NPaths
    /\ devices = list_hidraw
    /\ dev = 0
    /\ objs = <<>>
    /\ thr = [t \in Threads |-> IdleRec]
    /\ cache = InitCache
    /\ last_rx_time = 0
    /\ now = 1           \* time.monotonic() is positive
    /\ idleq = <<>>
    /\ flash \in F

SessInit == SessStart({FactoryFlash(l) : l \in ActiveLevels})

\* a mouse in use: every toggle on, button 4 bound to the macro slot
UsedFlash ==
    LET f1 == Overlay(FactoryFlash(1), Layout(ANGLE_SNAP_ADDR, Rec(<<1>>)))
        f2 == Overlay(f1, Layout(MOTION_SYNC_ADDR, Rec(<<1>>)))
    IN  Overlay(f2, Layout(BUTTON_MAP_ADDR, Rec(BTN4_BIND_DATA)))

\* where the checksum bytes compared by read_polling_rate, read_bool and
\* read_btn4_binding are stored
ChecksumAddrs ==
    {POLLING_RATE_ADDR + 1, RIPPLE_CONTROL_ADDR + 1, ANGLE_SNAP_ADDR + 1,
     MOTION_SYNC_ADDR + 1, BUTTON_MAP_ADDR + 3}

\* memories that hold at most one record whose checksum byte does not validate
StoredFlashes ==
    {UsedFlash} \cup {[UsedFlash EXCEPT ![a] = (@ + 1) % 256] : a \in ChecksumAddrs}

ScanIdle ==
    /\ reads = <<>>
    /\ ri = 0
    /\ expect_cmd = 0
    /\ spc = "idle"
    /\ pkt = None
    /\ rx = None

Set(t, r) == thr' = [thr EXCEPT ![t] = r]

\* a variant of Released that keeps the lock held
ReleasedNever(o) == objs

\* leaving `with self.lock:` of HidDevice o, by return or by exception
Released(o) == [objs EXCEPT ![o].lock = NoThread]

\* a worker slot is free when no thread runs in it
SlotFree(w) == thr[w].pc = "idle"
HasFree == \E w \in Workers : SlotFree(w)
FreeSlot == CHOOSE w \in Workers : SlotFree(w) /\ \A v \in Workers : SlotFree(v) => w <= v

\* threading.Thread(target=worker, daemon=True).start()
Started(op, arg, loc, pc) ==
    [IdleRec EXCEPT !.op = op, !.arg = arg, !.loc = loc, !.pc = pc, !.i = 1,
                    !.nc0 = (dev = 0)]

\* the thread's function returns: its locals are gone; what stays is what
\* the operation did (callbacks scheduled, exception caught, I/O done)
Ended(me) ==
    [IdleRec EXCEPT !.op = me.op, !.pc = "done", !.caught = me.caught, !.io = me.io,
                    !.nc0 = me.nc0, !.nc = me.nc, !.cbs = me.cbs, !.cbval = me.cbval,
                    !.log = me.log, !.ahead = me.ahead]

\* the workers thread t overtakes when it schedules its callback: their last
\* reply was received before t's (they were ahead of t, t was not ahead of
\* them) and their callback is not scheduled yet
Overtaken(me, t) ==
    {u \in me.ahead :
        /\ thr[u].pc = "ret"
        /\ thr[u].res.ok
        /\ thr[u].exc = "none"
        /\ t \notin thr[u].ahead}

\* GLib.idle_add has been called by thread t, whose function then returns
Scheduled(me, t, val) ==
    Ended([me EXCEPT !.caught = IF me.exc # "none" THEN me.exc ELSE me.caught,
                     !.cbs = @ + 1, !.cbval = val, !.ahead = Overtaken(me, t)])

\* a variant of IdleAdd that calls on_done(val) in the worker thread
IdleAddDirect(me, t, val) ==
    /\ idleq' = idleq
    /\ Set(t, Scheduled(me, t, val))

\* GLib.idle_add(on_done, val) by thread t, which then ends
IdleAdd(me, t, val) ==
    /\ idleq' = Append(idleq, [op |-> me.op, val |-> val, by |-> t])
    /\ Set(t, Scheduled(me, t, val))

(***************************************************************************)
(* Register encode rules and the macro record encoder                      *)
(***************************************************************************)
\* int(round(dpi / 100)): Python rounds halves to the even neighbour
RoundDiv100(dpi) ==
    LET q == dpi \div 100
        r == dpi % 100
    IN  IF r < 50 THEN q
        ELSE IF r > 50 THEN q + 1
        ELSE IF q % 2 = 0 THEN q ELSE q + 1

dpi_to_raw(dpi) == Max(1, Min(255, RoundDiv100(dpi)))

\* POLLING_HZ_TO_CODE.get(hz): 0 is None
POLLING_HZ_TO_CODE(hz) ==
    CASE hz = 125 -> 1 [] hz = 250 -> 2 [] hz = 500 -> 3 [] hz = 1000 -> 4 [] OTHER -> 0

\* the addr lookup of set_toggle_async: which is 1 ripple, 2 angle, 3 motion;
\* 0 is None (any other string)
ToggleAddr(which) ==
    CASE which = 1 -> RIPPLE_CONTROL_ADDR [] which = 2 -> ANGLE_SNAP_ADDR
      [] which = 3 -> MOTION_SYNC_ADDR [] OTHER -> 0

\* HID_KEYS and hid_keycode_for_char over character codes: <<keycode, modifier>>,
\* <<>> for a character that maps to no key
ShiftedDigits == <<33, 64, 35, 36, 37, 94, 38, 42, 40, 41>>
PlainPunct == <<45, 61, 91, 93, 92>>
ShiftPunct == <<95, 43, 123, 125, 124>>
PlainPunct2 == <<59, 39, 96, 44, 46, 47>>
ShiftPunct2 == <<58, 34, 126, 60, 62, 63>>

IndexOf(seq, x) == IF \E k \in 1 .. Len(seq) : seq[k] = x
                   THEN CHOOSE k \in 1 .. Len(seq) : seq[k] = x
                   ELSE 0

hid_keycode_for_char(ch) ==
    IF ch >= 65 /\ ch <= 90 THEN <<4 + (ch - 65), 2>>
    ELSE IF ch >= 97 /\ ch <= 122 THEN <<4 + (ch - 97), 0>>
    ELSE IF ch >= 49 /\ ch <= 57 THEN <<30 + (ch - 49), 0>>
    ELSE IF ch = 48 THEN <<39, 0>>
    ELSE IF ch = 32 THEN <<44, 0>>
    ELSE IF ch = 10 THEN <<40, 0>>
    ELSE IF ch = 9 THEN <<43, 0>>
    ELSE IF IndexOf(ShiftedDigits, ch) # 0 THEN <<29 + IndexOf(ShiftedDigits, ch), 2>>
    ELSE IF IndexOf(PlainPunct, ch) # 0 THEN <<44 + IndexOf(PlainPunct, ch), 0>>
    ELSE IF IndexOf(ShiftPunct, ch) # 0 THEN <<44 + IndexOf(ShiftPunct, ch), 2>>
    ELSE IF IndexOf(PlainPunct2, ch) # 0 THEN <<50 + IndexOf(PlainPunct2, ch), 0>>
    ELSE IF IndexOf(ShiftPunct2, ch) # 0 THEN <<50 + IndexOf(ShiftPunct2, ch), 2>>
    ELSE <<>>

MAX_EVENTS == 70

\* the loop of build_macro_string_record over text[idx..], idx counted from 0:
\* events are <<flag, keycode, modifier, delay>>
RECURSIVE MacroEvents(_, _, _, _, _)
MacroEvents(text, idx, press, inter, events) ==
    IF idx >= Len(text) THEN events
    ELSE LET kc == hid_keycode_for_char(text[idx + 1])
         IN  IF kc = <<>> THEN MacroEvents(text, idx + 1, press, inter, events)
             ELSE LET delay_after == IF idx < Len(text) - 1 THEN inter ELSE 0
                      ev == events \o <<<<128, kc[1], kc[2], press>>,
                                          <<64, kc[1], kc[2], delay_after>>>>
                  IN  IF Len(ev) >= MAX_EVENTS THEN ev
                      ELSE MacroEvents(text, idx + 1, press, inter, ev)

RECURSIVE EventBytes(_)
EventBytes(events) ==
    IF events = <<>> THEN <<>>
    ELSE LET e == Head(events)
         IN  <<(e[1] + 1 - (e[1] % 2)) % 256, e[2] % 256, e[3] % 256,
               (e[4] \div 256) % 256, e[4] % 256>> \o EventBytes(Tail(events))

\* "string_macro" in ASCII
MACRO_NAME == <<115, 116, 114, 105, 110, 103, 95, 109, 97, 99, 114, 111>>

\* the events of the record: the delays clamped, then the loop over the text
RecordEvents(text, press_delay_ms, inter_key_delay_ms) ==
    MacroEvents(text, 0, Max(0, Min(65535, press_delay_ms)),
                Max(0, Min(65535, inter_key_delay_ms)), <<>>)

\* buf[k] of build_macro_string_record, k counted from 0, given buf[31:chk_index]
RecordByte(body, k) ==
    IF k = 0 THEN Len(MACRO_NAME)
    ELSE IF k <= Len(MACRO_NAME) THEN MACRO_NAME[k]
    ELSE IF k >= 31 /\ k < 31 + Len(body) THEN body[k - 30]
    ELSE IF k = 31 + Len(body) THEN checksum_0x55(body)
    ELSE 255

\* a variant of RecordBody whose count byte counts the characters typed
RecordBodyPairs(events) == <<Len(events) \div 2>> \o EventBytes(events)

\* buf[31:chk_index]: the event count, then five bytes per event
RecordBody(events) == <<Len(events)>> \o EventBytes(events)

build_macro_string_record(text, press_delay_ms, inter_key_delay_ms) ==
    LET body == RecordBody(RecordEvents(text, press_delay_ms, inter_key_delay_ms))
    IN  [k \in 1 .. MACRO_RECORD_LEN |-> RecordByte(body, k - 1)]

\* a variant of RecordChunk that takes every chunk from the head of the record
RecordChunkHead(text, press_delay_ms, inter_key_delay_ms, i) ==
    LET body == RecordBody(RecordEvents(text, press_delay_ms, inter_key_delay_ms))
    IN  [j \in 1 .. Min(CHUNK_LEN, MACRO_RECORD_LEN - i) |-> RecordByte(body, j - 1)]

\* record[i:i+10] of the record built from the same arguments
RecordChunk(text, press_delay_ms, inter_key_delay_ms, i) ==
    LET body == RecordBody(RecordEvents(text, press_delay_ms, inter_key_delay_ms))
    IN  [j \in 1 .. Min(CHUNK_LEN, MACRO_RECORD_LEN - i) |-> RecordByte(body, i + j - 1)]

(***************************************************************************)
(* The request of a thread's current transaction                           *)
(***************************************************************************)
\* TrayApp.tick.worker: read_battery, read_current_dpi (2 reads),
\* read_polling_rate, read_toggles (3 reads), read_led, read_btn4_binding
TickReq(me) ==
    CASE me.i = 1 -> cmd_read_battery
      [] me.i = 2 -> cmd_read_flash(DPI_LEVEL_SELECT_ADDR, 1)
      [] me.i = 3 -> cmd_read_flash(DPI_LEVEL_BASE_ADDR + me.loc[1] * DPI_LEVEL_STRIDE, 3)
      [] me.i = 4 -> cmd_read_flash(POLLING_RATE_ADDR, 2)
      [] me.i = 5 -> cmd_read_flash(RIPPLE_CONTROL_ADDR, 2)
      [] me.i = 6 -> cmd_read_flash(ANGLE_SNAP_ADDR, 2)
      [] me.i = 7 -> cmd_read_flash(MOTION_SYNC_ADDR, 2)
      [] me.i = 8 -> cmd_read_flash(LED_CONFIG_ADDR, 10)
      [] OTHER    -> cmd_read_flash(BUTTON_MAP_ADDR, 4)

\* the transactions of the tick worker that begin a Backend read operation
TickOpStarts == {1, 2, 4, 5, 8, 9}

\* a variant of LedBsCfg without the tests for argument 0
LedBsCfgNoSkip(cfg, arg) ==
    <<cfg[1], cfg[2], cfg[3], cfg[4], Max(0, Min(9, arg[2] - 1)), Max(0, Min(9, arg[1] - 1))>>

\* set_led_brightness_speed_async: cfg after the overwrite of the requested
\* fields; arg is <<brightness_1_10, speed_1_10>>
LedBsCfg(cfg, arg) ==
    LET c4 == IF arg[2] # 0 THEN Max(0, Min(9, arg[2] - 1)) ELSE cfg[5]
        c5 == IF arg[1] # 0 THEN Max(0, Min(9, arg[1] - 1)) ELSE cfg[6]
    IN  <<cfg[1], cfg[2], cfg[3], cfg[4], c4, c5>>

\* set_led_mode_color_async: arg is <<mode_1_5, rgb given (1) or None (0), r, g, b>>
LedMcCfg(cfg, arg) ==
    LET mode == Max(1, Min(5, arg[1]))
    IN  IF mode = 2 /\ arg[2] = 1
        THEN <<mode, Max(0, Min(255, arg[3])), Max(0, Min(255, arg[4])),
               Max(0, Min(255, arg[5])), cfg[5], cfg[6]>>
        ELSE <<mode, cfg[2], cfg[3], cfg[4], cfg[5], cfg[6]>>

\* the LED workers: read the config, write it back, write the apply trigger;
\* loc is the cfg to write followed by ok1
LedReq(me) ==
    CASE me.i = 1 -> cmd_read_flash(LED_CONFIG_ADDR, 10)
      [] me.i = 2 -> cmd_write_0807_checked(LED_CONFIG_ADDR, SubSeq(me.loc, 1, 6))
      [] OTHER    -> cmd_write_0807_checked(LED_APPLY_ADDR, <<1>>)

\* the program-macro worker: loc is <<addr, i>> of its chunk loop; arg is
\* <<press_delay_ms, inter_key_delay_ms>> followed by the text
MacroReq(me) ==
    IF me.i = 1
    THEN cmd_write_0807_raw(me.loc[1],
             RecordChunk(SubSeq(me.arg, 3, Len(me.arg)), me.arg[1], me.arg[2], me.loc[2]))
    ELSE cmd_write_0807_checked(BUTTON_MAP_ADDR, BTN4_BIND_DATA)

ReqOf(me) ==
    IF me.ac THEN cmd_read_battery
    ELSE CASE me.op = "tickw" -> TickReq(me)
           [] me.op = "set_dpi" ->
                cmd_write_0807_checked(DPI_LEVEL_BASE_ADDR,
                                       <<dpi_to_raw(me.arg[1]), dpi_to_raw(me.arg[1]), 0>>)
           [] me.op = "set_polling" ->
                cmd_write_0807_checked(POLLING_RATE_ADDR, <<POLLING_HZ_TO_CODE(me.arg[1])>>)
           [] me.op = "set_toggle" ->
                cmd_write_0807_checked(ToggleAddr(me.arg[1]), <<me.arg[2]>>)
           [] me.op \in {"led_bs", "led_mc"} -> LedReq(me)
           [] me.op = "bind" -> cmd_write_0807_checked(BUTTON_MAP_ADDR, BTN4_BIND_DATA)
           [] me.op = "unbind" -> cmd_write_0807_checked(BUTTON_MAP_ADDR, BTN4_UNBIND_DATA)
           [] me.op = "write" ->
                LET data == [k \in 1 .. me.arg[2] |-> k]
                IN  IF me.arg[1] = "checked"
                    THEN cmd_write_0807_checked(MACRO_SLOT0_ADDR, data)
                    ELSE cmd_write_0807_raw(MACRO_SLOT0_ADDR, data)
           [] OTHER -> MacroReq(me)

\* whether the transaction about to start is the first of a Backend operation
OpStart(me) ==
    IF me.op = "tickw" THEN me.i \in TickOpStarts
    ELSE IF me.op = "macro" THEN FALSE
    ELSE me.i = 1

\* `if code is None` of set_polling_rate_async, `if addr is None` of set_toggle_async
ArgRejected(me) ==
    /\ me.i = 1
    /\ \/ me.op = "set_polling" /\ POLLING_HZ_TO_CODE(me.arg[1]) = 0
       \/ me.op = "set_toggle" /\ ToggleAddr(me.arg[1]) = 0

(***************************************************************************)
(* One transaction: _require_dev, then HidDevice.transceive_expect         *)
(***************************************************************************)
\* Backend._require_dev: raise IOError when self.dev is None
RequireDevFails(d) == d = 0

\* _require_dev, then transceive_expect's `if self.fd is None: return None`
Req(t) ==
    /\ thr[t].pc = "req"
    /\ ~ArgRejected(thr[t])
    /\ LET me == IF OpStart(thr[t])
                 THEN [thr[t] EXCEPT !.io = 0, !.nc = (dev = 0)]
                 ELSE thr[t]
       IN  IF RequireDevFails(dev)
           THEN Set(t, [me EXCEPT !.exc = "IOError", !.pc = "ret"])
           ELSE IF ReqOf(me) = ValueError
           THEN \* the frame builder raises while the argument of
                \* transceive_expect is evaluated
                Set(t, [me EXCEPT !.exc = "ValueError", !.pc = "ret"])
           ELSE IF ~objs[dev].fd
                THEN Set(t, [me EXCEPT !.obj = dev, !.res = NoReply, !.pc = "ret"])
                ELSE Set(t, [me EXCEPT !.obj = dev, !.pc = "send"])
    /\ UNCHANGED <<scanvars, devices, dev, objs, cache, last_rx_time, now, idleq, flash, nhid, budget, faults>>

\* `with self.lock:` of the HidDevice the thread holds a reference to
LockFree(o, t) == objs[o].lock = NoThread

\* a device fault may still happen
CanFault == faults > 0

\* the frames a worker of an asynchronous operation has written for the
\* operation itself (not for a probe), each with whether it was acknowledged
\* and what the reply carried; of a raw chunk write the log keeps the
\* address and the count, not the chunk
LogReq(req) == IF req.style = "raw" THEN [req EXCEPT !.data = <<>>] ELSE req

Logged(me) ==
    IF me.op = "tickw" \/ me.ac THEN me.log
    ELSE Append(me.log, [req |-> LogReq(ReqOf(me)), ack |-> FALSE, rx |-> <<>>])

Acked(me) ==
    IF me.op = "tickw" \/ me.ac \/ me.log = <<>> THEN me.log
    ELSE [me.log EXCEPT ![Len(me.log)] = [req |-> @.req, ack |-> TRUE, rx |-> me.pend.data]]

\* a variant of Stamped that never sets the time
StampedNever(res) == last_rx_time

\* read_flash, read_battery, _write_checked, _write_raw after
\* transceive_expect returned: `if not rx: return ..`, else
\* self.last_rx_time = time.monotonic()
Stamped(res) == IF res.ok THEN now ELSE last_rx_time

\* with self.lock: os.write(self.fd, tx17)
Send(t) ==
    /\ thr[t].pc = "send"
    /\ LET me == thr[t]
           o == me.obj
       IN  /\ LockFree(o, t)
           /\ \/ \* the handle was closed since the check: os.write(None, ..) raises
                 /\ ~objs[o].fd
                 /\ Set(t, [me EXCEPT !.exc = "TypeError", !.pc = "ret"])
                 /\ UNCHANGED <<objs, flash, faults>>
              \/ \* os.write raises OSError (device vanished)
                 /\ objs[o].fd
                 /\ CanFault
                 /\ faults' = faults - 1
                 /\ Set(t, [me EXCEPT !.exc = "OSError", !.pc = "ret"])
                 /\ UNCHANGED <<objs, flash>>
              \/ \* the frame is written and the mouse ignores it
                 /\ objs[o].fd
                 /\ CanFault
                 /\ faults' = faults - 1
                 /\ Set(t, [me EXCEPT !.pend = NoReply, !.pc = "recv", !.io = @ + 1,
                                        !.log = Logged(me)])
                 /\ objs' = [objs EXCEPT ![o].lock = t]
                 /\ UNCHANGED flash
              \/ \* the frame is written and the mouse processes it
                 /\ objs[o].fd
                 /\ \E req \in {ReqOf(me)} :   \* the frame tx17, built once
                       /\ \E p \in DevReplies(flash, req) :
                             Set(t, [me EXCEPT !.pend = p, !.pc = "recv", !.io = @ + 1,
                                               !.log = Logged(me)])
                       /\ flash' = DevFlash(flash, req)
                 /\ objs' = [objs EXCEPT ![o].lock = t]
                 /\ UNCHANGED faults
    /\ UNCHANGED <<scanvars, devices, dev, cache, last_rx_time, now, idleq, nhid, budget>>

\* the transaction is the last one of an asynchronous operation
FinalTx(me) ==
    /\ ~me.ac
    /\ \/ me.op \in {"set_dpi", "set_polling", "set_toggle", "bind", "unbind"}
       \/ me.op \in {"led_bs", "led_mc"} /\ me.i = 3
       \/ me.op = "macro" /\ me.i = 2

\* the workers whose last reply has been received and whose callback is not
\* scheduled yet, at the moment thread t receives its own last reply
Ahead(me, t) ==
    IF FinalTx(me)
    THEN {u \in Workers \ {t} :
            FinalTx(thr[u]) /\ thr[u].pc = "ret" /\ thr[u].res.ok /\ thr[u].exc = "none"}
    ELSE me.ahead

\* the reply loop up to its end: a matching frame, the deadline, or os.read
\* raising; the lock is released on each of these ways out
Recv(t) ==
    /\ thr[t].pc = "recv"
    /\ LET me == thr[t]
           o == me.obj
       IN  /\ objs' = Released(o)
           /\ \/ \* the reply is read and matches
                 /\ me.pend.ok
                 /\ objs[o].fd
                 /\ Set(t, [me EXCEPT !.res = me.pend, !.pend = NoReply, !.pc = "ret",
                                        !.log = Acked(me), !.ahead = Ahead(me, t)])
                 /\ UNCHANGED faults
              \/ \* no reply was sent, or the handle was closed: the deadline passes
                 /\ ~me.pend.ok \/ ~objs[o].fd
                 /\ Set(t, [me EXCEPT !.res = NoReply, !.pend = NoReply, !.pc = "ret"])
                 /\ UNCHANGED faults
              \/ \* the handle was closed between the loop's `self.fd is None`
                 \* and its select / os.read, which raise on None or a closed fd
                 /\ ~objs[o].fd
                 /\ \E e \in {"TypeError", "OSError"} :
                       Set(t, [me EXCEPT !.res = NoReply, !.pend = NoReply,
                                         !.exc = e, !.pc = "ret"])
                 /\ UNCHANGED faults
              \/ \* the reply is lost or late: the deadline passes
                 /\ me.pend.ok
                 /\ objs[o].fd
                 /\ CanFault
                 /\ faults' = faults - 1
                 /\ Set(t, [me EXCEPT !.res = NoReply, !.pend = NoReply, !.pc = "ret"])
              \/ \* os.read raises OSError
                 /\ objs[o].fd
                 /\ CanFault
                 /\ faults' = faults - 1
                 /\ Set(t, [me EXCEPT !.res = NoReply, !.pend = NoReply,
                                        !.exc = "OSError", !.pc = "ret"])
    /\ UNCHANGED <<scanvars, devices, dev, cache, last_rx_time, now, idleq, flash, nhid, budget>>

(***************************************************************************)
(* Backend.auto_connect, run by the main loop (tick, macro dialog) or by   *)
(* the program-macro worker                                                *)
(***************************************************************************)
\* an auto_connect that never takes the early return
AlreadyConnectedNever(d) == FALSE

\* `if self.dev:` at the head of auto_connect
AlreadyConnected(d) == d # 0

\* if self.dev: return True; otherwise refresh_devices()
AcEnter(t) ==
    /\ thr[t].pc = "ac_enter"
    /\ IF AlreadyConnected(dev)
       THEN /\ Set(t, [thr[t] EXCEPT !.ok = TRUE, !.pc = "ac_ret"])
            /\ UNCHANGED devices
       ELSE /\ devices' = list_hidraw
            /\ Set(t, [thr[t] EXCEPT !.cands = list_hidraw, !.ci = 0, !.pc = "ac_open",
                                     !.mine = {}])
    /\ UNCHANGED <<scanvars, dev, objs, cache, last_rx_time, now, idleq, flash, nhid, budget, faults>>

\* an auto_connect that lets the exception of dev.open() propagate
OpenFailedRaises(me) == [me EXCEPT !.exc = "OSError", !.ok = FALSE, !.pc = "ac_ret"]

\* dev.open() raised: `except Exception: pass`, on to the next candidate
OpenFailed(me) == [me EXCEPT !.ci = @ + 1]

\* for d in self.devices: dev = HidDevice(d["path"]); dev.open()
AcOpen(t) ==
    /\ thr[t].pc = "ac_open"
    /\ LET me == thr[t]
       IN  IF me.ci >= Len(me.cands)
           THEN \* the list is exhausted: return False
                /\ Set(t, [me EXCEPT !.ok = FALSE, !.pc = "ac_ret"])
                /\ UNCHANGED <<objs, faults>>
           ELSE \/ \* os.open raises: except Exception: pass
                   /\ CanFault
                   /\ faults' = faults - 1
                   /\ Set(t, OpenFailed(me))
                   /\ UNCHANGED objs
                \/ /\ Len(objs) < MaxObjs
                   /\ objs' = Append(objs, [path |-> me.cands[me.ci + 1], fd |-> TRUE,
                                            lock |-> NoThread])
                   /\ Set(t, [me EXCEPT !.obj = Len(objs) + 1, !.ac = TRUE, !.pc = "send",
                                        !.io = @ + 1, !.mine = @ \cup {Len(objs) + 1}])
                   /\ UNCHANGED faults
    /\ UNCHANGED <<scanvars, devices, dev, cache, last_rx_time, now, idleq, flash, nhid, budget>>

\* what auto_connect does with a candidate whose probe raised: `pass`
ProbeRaised(o) == objs

\* after the probe: adopt and return True, or dev.close() and go on, or pass
AcProbeRet(t) ==
    /\ thr[t].pc = "ret"
    /\ thr[t].ac
    /\ LET me == thr[t]
           o == me.obj
       IN  IF me.exc # "none"
           THEN /\ objs' = ProbeRaised(o)
                /\ Set(t, [me EXCEPT !.exc = "none", !.ac = FALSE, !.obj = 0,
                                     !.ci = @ + 1, !.pc = "ac_open"])
                /\ UNCHANGED <<dev, last_rx_time>>
           ELSE IF me.res.ok
                THEN \* self.dev = dev
                     /\ dev' = o
                     /\ Set(t, [me EXCEPT !.res = NoReply, !.ac = FALSE, !.obj = 0,
                                          !.pc = "ac_stamp"])
                     /\ UNCHANGED <<objs, last_rx_time>>
                ELSE /\ objs' = [objs EXCEPT ![o].fd = FALSE]
                     /\ Set(t, [me EXCEPT !.ac = FALSE, !.obj = 0,
                                          !.ci = @ + 1, !.pc = "ac_open"])
                     /\ UNCHANGED <<dev, last_rx_time>>
    /\ UNCHANGED <<scanvars, devices, cache, now, idleq, flash, nhid, budget, faults>>

\* self.last_rx_time = time.monotonic(); return True
AcStamp(t) ==
    /\ thr[t].pc = "ac_stamp"
    /\ last_rx_time' = now
    /\ Set(t, [thr[t] EXCEPT !.ok = TRUE, !.pc = "ac_ret"])
    /\ UNCHANGED <<scanvars, devices, dev, objs, cache, now, idleq, flash, nhid, budget, faults>>

\* Backend.is_sleeping
is_sleeping == dev # 0 /\ (now - last_rx_time) > SLEEP_TIMEOUT

(***************************************************************************)
(* Backend.disconnect                                                      *)
(***************************************************************************)
\* if self.dev: self.dev.close()
DiscClose(t) ==
    /\ thr[t].pc = "disc"
    /\ objs' = IF dev # 0 THEN [objs EXCEPT ![dev].fd = FALSE] ELSE objs
    /\ Set(t, [thr[t] EXCEPT !.pc = "disc2"])
    /\ UNCHANGED <<scanvars, devices, dev, cache, last_rx_time, now, idleq, flash, nhid, budget, faults>>

\* self.dev = None; the worker thread ends
DiscClear(t) ==
    /\ thr[t].pc = "disc2"
    /\ dev' = 0
    /\ Set(t, Ended(thr[t]))
    /\ UNCHANGED <<scanvars, devices, objs, cache, last_rx_time, now, idleq, flash, nhid, budget, faults>>

(***************************************************************************)
(* TrayApp.tick and its worker                                             *)
(***************************************************************************)
\* the 2000 ms timer fires: tick() calls auto_connect on the main loop
Tick ==
    /\ thr[Main].pc = "idle"
    /\ budget > 0
    /\ HasFree
    /\ budget' = budget - 1
    /\ Set(Main, [IdleRec EXCEPT !.op = "tick", !.pc = "ac_enter", !.nc0 = (dev = 0)])
    /\ UNCHANGED <<scanvars, devices, dev, objs, cache, last_rx_time, now, idleq, flash, nhid, faults>>

\* if not auto_connect(): return True; otherwise start the worker
TickAfterConnect ==
    /\ thr[Main].pc = "ac_ret"
    /\ thr[Main].op = "tick"
    /\ IF thr[Main].ok
       THEN thr' = [thr EXCEPT ![Main] = IdleRec,
                               ![FreeSlot] = Started("tickw", <<>>, <<0, 2, 2>>, "req")]
       ELSE Set(Main, IdleRec)
    /\ UNCHANGED <<scanvars, devices, dev, objs, cache, last_rx_time, now, idleq, flash, nhid, budget, faults>>

POLLING_CODE_TO_HZ(code) ==
    CASE code = 1 -> 125 [] code = 2 -> 250 [] code = 3 -> 500 [] code = 4 -> 1000
      [] OTHER -> 0 - 1

\* a variant of ReadBool that does not compare the checksum byte
ReadBoolUnchecked(res) ==
    IF ~res.ok THEN 2
    ELSE IF res.data[1] # 0 THEN 1 ELSE 0

\* read_bool of read_toggles: 2 is None, else bb[0] != 0
ReadBool(res) ==
    IF ~res.ok THEN 2
    ELSE IF res.data[2] # checksum_0x55(<<res.data[1]>>) THEN 2
    ELSE IF res.data[1] # 0 THEN 1 ELSE 0

\* the cached fields after transaction i of the tick worker returned res
TickCache(c, me) ==
    LET d == me.res.data
    IN  IF ~me.res.ok THEN c
        ELSE CASE me.i = 1 -> [c EXCEPT !.battery_percent = Max(0, Min(100, d[1]))]
               [] me.i = 3 -> [c EXCEPT !.dpi_value = d[1] * 100]
               [] me.i = 4 -> IF d[2] # checksum_0x55(<<d[1]>>) THEN c
                              ELSE [c EXCEPT !.polling_hz = POLLING_CODE_TO_HZ(d[1])]
               [] me.i = 7 -> IF me.loc[2] = 2 \/ me.loc[3] = 2 \/ ReadBool(me.res) = 2 THEN c
                              ELSE [c EXCEPT !.ripple_control = (me.loc[2] = 1),
                                             !.angle_snap = (me.loc[3] = 1),
                                             !.motion_sync = (ReadBool(me.res) = 1)]
               [] me.i = 8 -> [c EXCEPT !.led_mode = d[1], !.led_r = d[2], !.led_g = d[3],
                                        !.led_b = d[4], !.led_speed = d[5] + 1,
                                        !.led_brightness = d[6] + 1]
               [] me.i = 9 -> IF d[4] # checksum_0x55(SubSeq(d, 1, 3)) THEN c
                              ELSE [c EXCEPT !.btn4_macro_bound = (SubSeq(d, 1, 3) = BTN4_BIND_DATA)]
               [] OTHER -> c

\* the worker's locals <<level, r, a>> after transaction i returned res
TickLoc(me) ==
    CASE me.i = 2 /\ me.res.ok -> [me.loc EXCEPT ![1] = me.res.data[1] % 128]
      [] me.i = 5 -> [me.loc EXCEPT ![2] = ReadBool(me.res)]
      [] me.i = 6 -> [me.loc EXCEPT ![3] = ReadBool(me.res)]
      [] OTHER -> me.loc

\* a transaction of the tick worker returns: the read decodes its reply into
\* the cache and the next read starts; `except Exception: disconnect()`
TickWorkerRet(t) ==
    /\ thr[t].pc = "ret"
    /\ thr[t].op = "tickw"
    /\ LET me == thr[t]
       IN  IF me.exc # "none"
           THEN /\ Set(t, [me EXCEPT !.exc = "none", !.caught = me.exc, !.pc = "disc"])
                /\ UNCHANGED <<cache, last_rx_time>>
           ELSE /\ cache' = TickCache(cache, me)
                /\ last_rx_time' = Stamped(me.res)
                /\ IF me.i = 9
                   THEN Set(t, Ended(me))
                   ELSE Set(t, [me EXCEPT !.loc = TickLoc(me), !.res = NoReply,
                                          !.i = IF me.i = 2 /\ ~me.res.ok THEN 4 ELSE me.i + 1,
                                          !.pc = "req"])
    /\ UNCHANGED <<scanvars, devices, dev, objs, now, idleq, flash, nhid, budget, faults>>

(***************************************************************************)
(* The asynchronous operations: one worker thread per call                 *)
(***************************************************************************)
DpiArgs == {1600}
HzArgs == {500, 333}
ToggleArgs == {<<2, 1>>, <<0, 1>>}
LedBsArgs == {<<7, 0>>, <<0, 3>>}
LedMcArgs == {<<2, 1, 10, 20, 30>>}
MacroArgs == {<<20, 30, 104, 105>>}

\* a menu handler of the tray calls an asynchronous operation of the Backend
Invoke(op, arg, loc) ==
    /\ thr[Main].pc = "idle"
    /\ budget > 0
    /\ HasFree
    /\ budget' = budget - 1
    /\ Set(FreeSlot, Started(op, arg, loc, "req"))
    /\ UNCHANGED <<scanvars, devices, dev, objs, cache, last_rx_time, now, idleq, flash, nhid, faults>>

MenuSetDpi == \E d \in DpiArgs : Invoke("set_dpi", <<d>>, <<>>)
MenuSetPolling == \E hz \in HzArgs : Invoke("set_polling", <<hz>>, <<>>)
MenuSetToggle == \E a \in ToggleArgs : Invoke("set_toggle", a, <<>>)
MenuLedBs == \E a \in LedBsArgs : Invoke("led_bs", a, <<0, 0, 0, 0, 0, 0, 0>>)
MenuLedMc == \E a \in LedMcArgs : Invoke("led_mc", a, <<0, 0, 0, 0, 0, 0, 0>>)
MenuBind == Invoke("bind", <<>>, <<>>)
MenuUnbind == Invoke("unbind", <<>>, <<>>)

\* a worker whose handler reports success
OnExceptionTrue(me, t) == IdleAdd(me, t, TRUE)

\* a worker without the handler: the exception ends the thread
OnExceptionLost(me, t) ==
    /\ Set(t, Ended([me EXCEPT !.caught = me.exc]))
    /\ UNCHANGED idleq

\* the worker's `except Exception: GLib.idle_add(on_done, False)`
OnException(me, t) == IdleAdd(me, t, FALSE)

\* set_polling_rate_async / set_toggle_async with an argument outside the
\* table: GLib.idle_add(on_done, False); return
AsyncReject(t) ==
    /\ thr[t].pc = "req"
    /\ ArgRejected(thr[t])
    /\ IdleAdd(thr[t], t, FALSE)
    /\ UNCHANGED <<scanvars, devices, dev, objs, cache, last_rx_time, now, flash, nhid, budget, faults>>

\* the cached fields after a one-write operation was acknowledged
SetCache(c, me) ==
    CASE me.op = "set_dpi" -> [c EXCEPT !.dpi_value = me.arg[1]]
      [] me.op = "set_polling" -> [c EXCEPT !.polling_hz = me.arg[1]]
      [] me.op = "set_toggle" ->
            CASE me.arg[1] = 1 -> [c EXCEPT !.ripple_control = (me.arg[2] = 1)]
              [] me.arg[1] = 2 -> [c EXCEPT !.angle_snap = (me.arg[2] = 1)]
              [] me.arg[1] = 3 -> [c EXCEPT !.motion_sync = (me.arg[2] = 1)]
              [] OTHER -> c
      [] me.op = "bind" -> [c EXCEPT !.btn4_macro_bound = TRUE]
      [] me.op = "unbind" -> [c EXCEPT !.btn4_macro_bound = FALSE]
      [] OTHER -> c

SetOps == {"set_dpi", "set_polling", "set_toggle", "bind", "unbind"}

\* set_dpi_async, set_polling_rate_async, set_toggle_async, bind_btn4_to_macro_async,
\* unbind_btn4_macro_async after their _write_checked
SetRet(t) ==
    /\ thr[t].pc = "ret"
    /\ thr[t].op \in SetOps
    /\ LET me == thr[t]
       IN  IF me.exc # "none"
           THEN /\ OnException(me, t)
                /\ UNCHANGED <<cache, last_rx_time>>
           ELSE /\ cache' = IF me.res.ok THEN SetCache(cache, me) ELSE cache
                /\ last_rx_time' = Stamped(me.res)
                /\ IdleAdd(me, t, me.res.ok)
    /\ UNCHANGED <<scanvars, devices, dev, objs, now, flash, nhid, budget, faults>>

\* a variant of LedOk that looks at the apply write alone
LedOkApplyOnly(ok1, ok2) == ok2

\* ok = ok1 and ok2
LedOk(ok1, ok2) == ok1 /\ ok2

\* the cached LED fields after both writes were acknowledged
LedCache(c, me) ==
    IF me.op = "led_bs"
    THEN [c EXCEPT !.led_speed = me.loc[5] + 1, !.led_brightness = me.loc[6] + 1]
    ELSE [c EXCEPT !.led_mode = me.loc[1], !.led_r = me.loc[2], !.led_g = me.loc[3],
                   !.led_b = me.loc[4]]

\* set_led_brightness_speed_async / set_led_mode_color_async after each of
\* their three transactions
LedRet(t) ==
    /\ thr[t].pc = "ret"
    /\ thr[t].op \in {"led_bs", "led_mc"}
    /\ LET me == thr[t]
           cfg == IF me.op = "led_bs" THEN LedBsCfg(me.res.data, me.arg)
                  ELSE LedMcCfg(me.res.data, me.arg)
       IN  IF me.exc # "none"
           THEN /\ OnException(me, t)
                /\ UNCHANGED <<cache, last_rx_time>>
           ELSE /\ last_rx_time' = Stamped(me.res)
                /\ CASE me.i = 1 /\ ~me.res.ok ->
                          \* raise IOError("read led config failed")
                          /\ OnException([me EXCEPT !.exc = "IOError"], t)
                          /\ UNCHANGED cache
                     [] me.i = 1 /\ me.res.ok ->
                          /\ Set(t, [me EXCEPT !.loc = cfg \o <<0>>, !.res = NoReply,
                                               !.i = 2, !.pc = "req"])
                          /\ UNCHANGED <<cache, idleq>>
                     [] me.i = 2 ->
                          /\ Set(t, [me EXCEPT !.loc[7] = IF me.res.ok THEN 1 ELSE 0,
                                               !.res = NoReply, !.i = 3, !.pc = "req"])
                          /\ UNCHANGED <<cache, idleq>>
                     [] OTHER ->
                          LET ok == LedOk(me.loc[7] = 1, me.res.ok)
                          IN  /\ cache' = IF ok THEN LedCache(cache, me) ELSE cache
                              /\ IdleAdd(me, t, ok)
    /\ UNCHANGED <<scanvars, devices, dev, objs, now, flash, nhid, budget, faults>>

(***************************************************************************)
(* Backend._write_checked / Backend._write_raw called with data of any     *)
(* length by a thread of its own                                           *)
(***************************************************************************)
MaxWriteLen == 11

\* the style and the number of data bytes
WriteArgs == {"checked", "raw"} \X (8 .. MaxWriteLen)

CallWrite == \E a \in WriteArgs : Invoke("write", a, <<>>)

\* the call returns True or False, or raises out of the thread's function
WriteRet(t) ==
    /\ thr[t].pc = "ret"
    /\ thr[t].op = "write"
    /\ LET me == thr[t]
       IN  /\ last_rx_time' = IF me.exc = "none" THEN Stamped(me.res) ELSE last_rx_time
           /\ Set(t, Ended([me EXCEPT !.caught = me.exc]))
    /\ UNCHANGED <<scanvars, devices, dev, objs, cache, now, idleq, flash, nhid, budget, faults>>

(***************************************************************************)
(* TrayApp._macro_program_dialog and program_btn4_macro_string_async       *)
(***************************************************************************)
\* the dialog is accepted with a non-empty text: auto_connect on the main loop
MacroDialogOf(A) ==
    /\ thr[Main].pc = "idle"
    /\ budget > 0
    /\ HasFree
    /\ budget' = budget - 1
    /\ \E a \in A :
          Set(Main, [IdleRec EXCEPT !.op = "dialog", !.pc = "ac_enter", !.arg = a,
                                    !.nc0 = (dev = 0)])
    /\ UNCHANGED <<scanvars, devices, dev, objs, cache, last_rx_time, now, idleq, flash, nhid, faults>>

MacroDialog == MacroDialogOf(MacroArgs)

\* if not auto_connect(): notify and return; otherwise start the worker,
\* which begins with its own auto_connect
DialogAfterConnect ==
    /\ thr[Main].pc = "ac_ret"
    /\ thr[Main].op = "dialog"
    /\ IF thr[Main].ok
       THEN thr' = [thr EXCEPT ![Main] = IdleRec,
                               ![FreeSlot] = Started("macro", thr[Main].arg,
                                                     <<MACRO_SLOT0_ADDR, 0>>, "ac_enter")]
       ELSE Set(Main, IdleRec)
    /\ UNCHANGED <<scanvars, devices, dev, objs, cache, last_rx_time, now, idleq, flash, nhid, budget, faults>>

\* if not self.auto_connect(): raise IOError("device not connected")
MacroAfterConnect(t) ==
    /\ thr[t].pc = "ac_ret"
    /\ thr[t].op = "macro"
    /\ IF thr[t].ok
       THEN /\ Set(t, [thr[t] EXCEPT !.pc = "req"])
            /\ UNCHANGED idleq
       ELSE OnException([thr[t] EXCEPT !.exc = "IOError"], t)
    /\ UNCHANGED <<scanvars, devices, dev, objs, cache, last_rx_time, now, flash, nhid, budget, faults>>

\* the chunk loop and the final bind of the program-macro worker
\* a variant of WriteFailed that takes every write for acknowledged
WriteFailedNever(me) == FALSE

\* `if not self._write_raw(...)` / `if not self._write_checked(...)`
WriteFailed(me) == ~me.res.ok

MacroRet(t) ==
    /\ thr[t].pc = "ret"
    /\ thr[t].op = "macro"
    /\ ~thr[t].ac
    /\ LET me == thr[t]
           n == Min(CHUNK_LEN, MACRO_RECORD_LEN - me.loc[2])
       IN  IF me.exc # "none"
           THEN /\ OnException(me, t)
                /\ UNCHANGED <<cache, last_rx_time>>
           ELSE IF WriteFailed(me)
                THEN \* raise IOError("macro write failed ...") / IOError("bind failed")
                     /\ OnException([me EXCEPT !.exc = "IOError"], t)
                     /\ UNCHANGED <<cache, last_rx_time>>
                ELSE /\ last_rx_time' = Stamped(me.res)
                     /\ IF me.i = 1
                        THEN /\ Set(t, [me EXCEPT !.loc = <<me.loc[1] + n, me.loc[2] + n>>,
                                                  !.res = NoReply, !.pc = "req",
                                                  !.i = IF me.loc[2] + n < MACRO_RECORD_LEN
                                                        THEN 1 ELSE 2])
                             /\ UNCHANGED <<cache, idleq>>
                        ELSE /\ cache' = [cache EXCEPT !.btn4_macro_bound = TRUE]
                             /\ IdleAdd(me, t, TRUE)
    /\ UNCHANGED <<scanvars, devices, dev, objs, now, flash, nhid, budget, faults>>

(***************************************************************************)
(* The GLib main loop and thread exit                                      *)
(***************************************************************************)
\* the main loop, idle, runs the next queued callback
RunIdle ==
    /\ thr[Main].pc = "idle"
    /\ idleq # <<>>
    /\ idleq' = Tail(idleq)
    /\ UNCHANGED <<scanvars, devices, dev, objs, thr, cache, last_rx_time, now, flash, nhid, budget, faults>>

\* a worker's function has returned: the thread is gone
ThreadExit(t) ==
    /\ thr[t].pc = "done"
    /\ Set(t, IdleRec)
    /\ UNCHANGED <<scanvars, devices, dev, objs, cache, last_rx_time, now, idleq, flash, nhid, budget, faults>>

\* the session starts with no mouse or one mouse plugged in (ConnSpec takes
\* the enumerations of several candidates)
Init == SessInit /\ nhid <= 1 /\ ScanIdle /\ budget = MaxOps /\ faults = MaxFaults

Next ==
    \/ \E t \in Threads : Req(t) \/ Send(t) \/ Recv(t)
    \/ \E t \in Threads : AcEnter(t) \/ AcOpen(t) \/ AcProbeRet(t) \/ AcStamp(t)
    \/ \E t \in Workers : DiscClose(t) \/ DiscClear(t) \/ TickWorkerRet(t) \/ ThreadExit(t)
    \/ \E t \in Workers : AsyncReject(t) \/ SetRet(t) \/ LedRet(t)
    \/ \E t \in Workers : MacroAfterConnect(t) \/ MacroRet(t)
    \/ Tick \/ TickAfterConnect \/ MacroDialog \/ DialogAfterConnect
    \/ MenuSetDpi \/ MenuSetPolling \/ MenuSetToggle \/ MenuLedBs \/ MenuLedMc
    \/ MenuBind \/ MenuUnbind
    \/ RunIdle

Spec == Init /\ [][Next]_vars

\* the session driven by the periodic tick and the DPI menu only, over more events
MaxRaceOps == 3

RaceInit == SessInit /\ ScanIdle /\ budget = MaxRaceOps /\ faults = MaxFaults

RaceNext ==
    \/ \E t \in Threads : Req(t) \/ Send(t) \/ Recv(t)
    \/ \E t \in Threads : AcEnter(t) \/ AcOpen(t) \/ AcProbeRet(t) \/ AcStamp(t)
    \/ \E t \in Workers : DiscClose(t) \/ DiscClear(t) \/ TickWorkerRet(t) \/ ThreadExit(t)
    \/ \E t \in Workers : SetRet(t)
    \/ Tick \/ TickAfterConnect \/ MenuSetDpi
    \/ RunIdle

RaceSpec == RaceInit /\ [][RaceNext]_vars

\* the same session over fewer events with one mouse plugged in, in which
\* every thread inside transceive_expect keeps running: the scheduler runs
\* each runnable thread, os.write returns, and the reply loop ends at its
\* deadline at the latest
MaxLiveOps == 2

LiveInit == SessInit /\ nhid = 1 /\ ScanIdle /\ budget = MaxLiveOps /\ faults = MaxFaults

LiveSpec ==
    /\ LiveInit
    /\ [][RaceNext]_vars
    /\ \A t \in Threads : WF_vars(Send(t)) /\ WF_vars(Recv(t))

\* the session driven by the periodic tick alone, with more device faults
MaxTicks == 2
MaxConnFaults == 3

ConnInit == SessInit /\ ScanIdle /\ budget = MaxTicks /\ faults = MaxConnFaults

ConnNext ==
    \/ \E t \in Threads : Req(t) \/ Send(t) \/ Recv(t)
    \/ \E t \in Threads : AcEnter(t) \/ AcOpen(t) \/ AcProbeRet(t) \/ AcStamp(t)
    \/ \E t \in Workers : DiscClose(t) \/ DiscClear(t) \/ TickWorkerRet(t) \/ ThreadExit(t)
    \/ Tick \/ TickAfterConnect

ConnSpec == ConnInit /\ [][ConnNext]_vars

\* time.monotonic() moves on between two statements of the program
TimeStep == 6
MaxNow == 7

Advance ==
    /\ now + TimeStep <= MaxNow
    /\ now' = now + TimeStep
    /\ UNCHANGED <<scanvars, devices, dev, objs, thr, cache, last_rx_time, idleq, flash, nhid, budget, faults>>

\* the session driven by the periodic tick, over a mouse in use, with the clock
MaxReadTicks == 2
MaxReadFaults == 1

ReadInit == SessStart(StoredFlashes) /\ ScanIdle /\ budget = MaxReadTicks /\ faults = MaxReadFaults

ReadNext == ConnNext \/ Advance

ReadSpec == ReadInit /\ [][ReadNext]_vars

\* the session driven by the tick and the macro dialog, with the clock, one
\* /dev/hidraw entry and a mouse that holds a record the reads reject
MaxSleepOps == 2
MaxSleepFaults == 1

\* a mouse in use whose polling-rate record has a wrong checksum byte
BadPollingFlash == [UsedFlash EXCEPT ![POLLING_RATE_ADDR + 1] = (@ + 1) % 256]

SleepInit ==
    /\ SessStart({BadPollingFlash})
    /\ nhid = 1
    /\ ScanIdle
    /\ budget = MaxSleepOps
    /\ faults = MaxSleepFaults

SleepNext ==
    \/ ConnNext
    \/ \E t \in Workers : MacroAfterConnect(t) \/ MacroRet(t)
    \/ MacroDialog \/ DialogAfterConnect
    \/ RunIdle
    \/ Advance

SleepSpec == SleepInit /\ [][SleepNext]_vars

\* the session driven by the tick and by calls of the two write helpers
MaxWriteOps == 2
MaxWriteFaults == 1

WriteInit == SessInit /\ ScanIdle /\ budget = MaxWriteOps /\ faults = MaxWriteFaults

WriteNext ==
    \/ ConnNext
    \/ CallWrite
    \/ \E t \in Workers : WriteRet(t)

WriteSpec == WriteInit /\ [][WriteNext]_vars

\* the session driven by the macro dialog alone
MaxMacroOps == 1
MaxMacroFaults == 1

MacroInit == SessInit /\ ScanIdle /\ budget = MaxMacroOps /\ faults = MaxMacroFaults

MacroNext ==
    \/ \E t \in Threads : Req(t) \/ Send(t) \/ Recv(t)
    \/ \E t \in Threads : AcEnter(t) \/ AcOpen(t) \/ AcProbeRet(t) \/ AcStamp(t)
    \/ \E t \in Workers : MacroAfterConnect(t) \/ MacroRet(t) \/ ThreadExit(t)
    \/ MacroDialog \/ DialogAfterConnect
    \/ RunIdle

MacroSpec == MacroInit /\ [][MacroNext]_vars

\* the session driven by the tick and by calls of set_dpi_async with any
\* argument, one mouse whose level selector may hold any byte, without device
\* faults
MaxDpiOps == 3
SelectorBytes == {0, 4, 133, 255}
DpiInputs == {0, 1600, 1650, 30000}

CallSetDpi == \E d \in DpiInputs : Invoke("set_dpi", <<d>>, <<>>)

DpiInit ==
    /\ SessStart({FactoryFlash(b) : b \in SelectorBytes})
    /\ nhid = 1
    /\ ScanIdle
    /\ budget = MaxDpiOps
    /\ faults = 0

DpiNext ==
    \/ \E t \in Threads : Req(t) \/ Send(t) \/ Recv(t)
    \/ \E t \in Threads : AcEnter(t) \/ AcOpen(t) \/ AcProbeRet(t) \/ AcStamp(t)
    \/ \E t \in Workers : TickWorkerRet(t) \/ SetRet(t) \/ ThreadExit(t)
    \/ Tick \/ TickAfterConnect \/ CallSetDpi
    \/ RunIdle

DpiSpec == DpiInit /\ [][DpiNext]_vars

\* the session driven by the tick and the two LED dialogs, one mouse, without
\* device faults
MaxLedOps == 3

LedInit == SessInit /\ nhid = 1 /\ ScanIdle /\ budget = MaxLedOps /\ faults = 0

LedNext ==
    \/ \E t \in Threads : Req(t) \/ Send(t) \/ Recv(t)
    \/ \E t \in Threads : AcEnter(t) \/ AcOpen(t) \/ AcProbeRet(t) \/ AcStamp(t)
    \/ \E t \in Workers : TickWorkerRet(t) \/ LedRet(t) \/ ThreadExit(t)
    \/ Tick \/ TickAfterConnect \/ MenuLedBs \/ MenuLedMc
    \/ RunIdle

LedSpec == LedInit /\ [][LedNext]_vars

\* the session driven by the periodic tick alone, one mouse, in which the
\* reply to a request may arrive after the caller's deadline: nothing reads
\* or discards it, so it waits in the hidraw node's input (reads, here a
\* queue of frames: reply op code and data) for the next os.read
MaxLateTicks == 1
MaxLateFaults == 1

\* the deadline passes before the reply arrives; the reply arrives later
RecvLate(t) ==
    /\ thr[t].pc = "recv"
    /\ LET me == thr[t]
           o == me.obj
       IN  /\ me.pend.ok
           /\ objs[o].fd
           /\ CanFault
           /\ faults' = faults - 1
           /\ objs' = Released(o)
           /\ Set(t, [me EXCEPT !.res = NoReply, !.pend = NoReply, !.pc = "ret"])
           /\ reads' = Append(reads, [cmd |-> ReqOf(me).cmd, data |-> me.pend.data])
    /\ UNCHANGED <<ri, expect_cmd, spc, pkt, rx>>
    /\ UNCHANGED <<devices, dev, cache, last_rx_time, now, idleq, flash, nhid, budget>>

\* bytes a reply frame holds after its data
FramePadding == {0, 255}

\* rx[6:6+count] of a frame that carries data
SliceOf(data, count, pad) == [k \in 1 .. count |-> IF k <= Len(data) THEN data[k] ELSE pad]

\* the reply loop reads the frame that waited in the input: it is returned
\* if pkt[1] == expect_cmd, and dropped otherwise; the reply to the request
\* just written arrives behind it
RecvStale(t) ==
    /\ thr[t].pc = "recv"
    /\ reads # <<>>
    /\ LET me == thr[t]
           o == me.obj
           req == ReqOf(me)
           own == IF me.pend.ok THEN <<[cmd |-> req.cmd, data |-> me.pend.data]>> ELSE <<>>
       IN  /\ objs[o].fd
           /\ IF Head(reads).cmd = req.cmd
              THEN /\ \E pad \in FramePadding :
                         Set(t, [me EXCEPT !.res = [ok |-> TRUE,
                                                    data |-> SliceOf(Head(reads).data,
                                                                     req.count, pad)],
                                           !.pend = NoReply, !.pc = "ret"])
                   /\ objs' = Released(o)
                   /\ reads' = Tail(reads) \o own
              ELSE /\ reads' = Tail(reads)
                   /\ UNCHANGED <<thr, objs>>
    /\ UNCHANGED <<ri, expect_cmd, spc, pkt, rx>>
    /\ UNCHANGED <<devices, dev, cache, last_rx_time, now, idleq, flash, nhid, budget, faults>>

LateInit == SessInit /\ nhid = 1 /\ ScanIdle /\ budget = MaxLateTicks /\ faults = MaxLateFaults

LateNext ==
    \/ \E t \in Threads : Req(t) \/ Send(t) \/ (reads = <<>> /\ Recv(t))
    \/ \E t \in Threads : RecvLate(t) \/ RecvStale(t)
    \/ \E t \in Threads : AcEnter(t) \/ AcOpen(t) \/ AcProbeRet(t) \/ AcStamp(t)
    \/ \E t \in Workers : DiscClose(t) \/ DiscClear(t) \/ TickWorkerRet(t) \/ ThreadExit(t)
    \/ Tick \/ TickAfterConnect

LateSpec == LateInit /\ [][LateNext]_vars

\* the session driven by the macro dialog alone, without device faults, over
\* texts of few and of many characters: MaxMapped characters that map to a
\* key, a character that maps to none inserted after every gap-th of them
\* (gap 0: none inserted), and tail more of those at the end
MaxMapped == 37
TextLens == (0 .. 3) \cup (33 .. MaxMapped)
TextGaps == {0, 1, 4}
TextTails == {0, 2}

\* "aZ7? " and "\u00e9"
MappedChars == <<97, 90, 55, 63, 32>>
UnmappedChar == 233

TextOf(m, gap, tail) ==
    LET lb == IF gap = 0 THEN m ELSE m + (m \div gap)
    IN  [i \in 1 .. (lb + tail) |->
            IF i > lb \/ (gap > 0 /\ i % (gap + 1) = 0) THEN UnmappedChar
            ELSE LET j == IF gap = 0 THEN i ELSE i - (i \div (gap + 1))
                 IN  MappedChars[(j % Len(MappedChars)) + 1]]

\* the dialog's press delay, inter-key delay and text; an empty text is
\* turned down by the dialog
RecordDelays == {<<20, 30>>, <<70000, 300>>}
RecordTexts ==
    {TextOf(m, gap, tail) : m \in TextLens, gap \in TextGaps, tail \in TextTails} \ {<<>>}
RecordArgs == {d \o text : d \in RecordDelays, text \in RecordTexts}

RecordInit == SessInit /\ nhid = 1 /\ ScanIdle /\ budget = MaxMacroOps /\ faults = 0

RecordNext ==
    \/ \E t \in Threads : Req(t) \/ Send(t) \/ Recv(t)
    \/ \E t \in Threads : AcEnter(t) \/ AcOpen(t) \/ AcProbeRet(t) \/ AcStamp(t)
    \/ \E t \in Workers : MacroAfterConnect(t) \/ MacroRet(t) \/ ThreadExit(t)
    \/ MacroDialogOf(RecordArgs) \/ DialogAfterConnect
    \/ RunIdle

RecordSpec == RecordInit /\ [][RecordNext]_vars

ScanStart == ScanInit /\ SessInit /\ budget = 0 /\ faults = 0

ScanSpec == ScanStart /\ [][ScanNext]_vars

(***************************************************************************)
(* Properties of one exchange (ScanSpec)                                   *)
(***************************************************************************)
\* offsets of the windows of data that validate and carry op code op in byte 1
MatchingOffsets(data, op) ==
    {i \in 0 .. (Len(data) - FRAME_LEN) :
        WindowValid(Window(data, i)) /\ Window(data, i)[2] = op}

LowestOf(S) == CHOOSE i \in S : \A j \in S : i <= j

\* C5: once a read holding a window that validates and carries the expected
\* op code has been scanned, the exchange has ended and returned the first
\* such window of that read, whatever valid windows with another op code
\* precede it in the read.
C5_FirstMatchingWindowAccepted ==
    (ri >= 1 /\ MatchingOffsets(reads[ri], expect_cmd) # {})
        => /\ spc = "done"
           /\ rx = Window(reads[ri], LowestOf(MatchingOffsets(reads[ri], expect_cmd)))

\* the exchange's reads are one valid frame with the expected op code cut in
\* two: the first read ends inside the frame, the second holds the rest
SplitFrame ==
    /\ Len(reads) = 2
    /\ Len(reads[1]) \in 1 .. (FRAME_LEN - 1)
    /\ Len(reads[1]) + Len(reads[2]) = FRAME_LEN
    /\ WindowValid(reads[1] \o reads[2])
    /\ (reads[1] \o reads[2])[2] = expect_cmd

\* C6: an exchange whose expected reply arrived split over two consecutive
\* reads ends by returning the reassembled frame.
C6_SplitFrameAccepted ==
    (spc = "done" /\ SplitFrame) => rx = reads[1] \o reads[2]

\* the last read scanned is a window with a wrong checksum followed by a
\* valid frame
CorruptThenValid ==
    /\ ri >= 1
    /\ Len(reads[ri]) = 2 * FRAME_LEN
    /\ ~WindowValid(Window(reads[ri], 0))
    /\ WindowValid(Window(reads[ri], FRAME_LEN))

\* no window that straddles the corrupted bytes and the frame validates
NoStraddle ==
    \A j \in 1 .. (FRAME_LEN - 1) : ~WindowValid(Window(reads[ri], j))

\* C7 as stated: for a read made of a wrong-checksum window followed by a
\* valid frame the scan returns the bytes at the valid frame's offset,
\* whatever the corrupted bytes are.
C7_ValidFrameReturned ==
    CorruptThenValid => pkt = Window(reads[ri], FRAME_LEN)

\* C7 amended: for such a read the scan returns the checksum-valid window at
\* the lowest offset; that is the valid frame exactly when no window
\* straddling the corrupted bytes and the frame happens to validate.
C7_LowestValidWindowReturned ==
    CorruptThenValid =>
        /\ \E i \in 1 .. FRAME_LEN :
              /\ pkt = Window(reads[ri], i)
              /\ WindowValid(pkt)
              /\ \A j \in 0 .. (i - 1) : ~WindowValid(Window(reads[ri], j))
        /\ NoStraddle => pkt = Window(reads[ri], FRAME_LEN)

\* a corrupted window followed by a frame, nothing straddling validates, and
\* the scan has returned the frame
C7_Witness ==
    /\ CorruptThenValid
    /\ NoStraddle
    /\ pkt = Window(reads[ri], FRAME_LEN)
    /\ Window(reads[ri], 0) # Zeros(FRAME_LEN)

(***************************************************************************)
(* Properties of the session (Spec, RaceSpec)                              *)
(***************************************************************************)
\* the threads that have written a frame to the device at path p and whose
\* exchange has not ended yet
Exchanging(p) ==
    {t \in Threads : thr[t].pc = "recv" /\ objs[thr[t].obj].path = p}

\* C1: at any moment at most one exchange is in progress on a device: nobody
\* writes a frame to it between a caller's write and the end of that
\* caller's exchange.
C1_OneExchangePerDevice ==
    \A p \in Paths : Cardinality(Exchanging(p)) <= 1

\* C2: when a worker whose transaction met a low-level I/O error (os.write
\* or os.read raising OSError) reports its outcome, the session is
\* Disconnected.
C2_IOErrorDisconnects ==
    [][\A t \in Workers :
          (thr[t].pc # "done" /\ thr'[t].pc = "done" /\ thr'[t].caught = "OSError")
              => dev' = 0]_vars

AsyncOps == SetOps \cup {"led_bs", "led_mc", "macro"}

\* C3 as stated: a synchronous read called with no active connection raises
\* without any open or I/O, and an asynchronous operation (program-macro
\* included) invoked with no active connection ends without any open or
\* I/O and reports false.
C3_DisconnectedOpsDoNothing ==
    \A t \in Workers :
        /\ (thr[t].op = "tickw" /\ thr[t].pc = "ret" /\ thr[t].nc)
              => (thr[t].io = 0 /\ thr[t].exc = "IOError")
        /\ (thr[t].op \in AsyncOps /\ thr[t].pc = "done" /\ thr[t].nc0)
              => (thr[t].io = 0 /\ thr[t].cbs = 1 /\ ~thr[t].cbval)

\* C3 amended: a synchronous read, or an asynchronous operation other than
\* program-macro, whose first connection check (_require_dev) finds no
\* active connection fails there: no open, no I/O, and the asynchronous ones
\* report false once.  Program-macro begins with auto_connect instead, which
\* may enumerate, open and probe; when it ends having opened nothing and
\* written nothing it reports false.
C3_FailedCheckDoesNothing ==
    \A t \in Workers :
        /\ (thr[t].op = "tickw" /\ thr[t].pc = "ret" /\ thr[t].nc)
              => (thr[t].io = 0 /\ thr[t].exc = "IOError")
        /\ (thr[t].op \in AsyncOps \ {"macro"} /\ thr[t].pc = "done" /\ thr[t].nc)
              => (thr[t].io = 0 /\ thr[t].cbs = 1 /\ ~thr[t].cbval)
        /\ (thr[t].op = "macro" /\ thr[t].pc = "done" /\ thr[t].io = 0)
              => (thr[t].cbs = 1 /\ ~thr[t].cbval)

\* an asynchronous operation found no connection at its check and has
\* reported false without any I/O
C3_Witness ==
    \E t \in Workers :
        /\ thr[t].op \in AsyncOps \ {"macro"}
        /\ thr[t].pc = "done"
        /\ thr[t].nc
        /\ thr[t].caught = "IOError"
        /\ thr[t].io = 0
        /\ thr[t].cbs = 1
        /\ ~thr[t].cbval

\* C4: a worker of an asynchronous operation never schedules its completion
\* callback twice, and when it has ended it has scheduled it exactly once,
\* with a boolean, whatever its transactions met (reply, no reply, I/O
\* error); the exception, if any, was caught inside the worker.
C4_CallbackExactlyOnce ==
    \A t \in Workers :
        thr[t].op \in AsyncOps =>
            /\ thr[t].cbs <= 1
            /\ thr[t].cbval \in BOOLEAN
            /\ thr[t].pc = "done" => (thr[t].cbs = 1 /\ thr[t].exc = "none")
            /\ thr[t].cbs = 1 => thr[t].pc = "done"

\* a worker whose transaction raised OSError has ended with one callback
C4_Witness ==
    \E t \in Workers :
        /\ thr[t].op \in AsyncOps
        /\ thr[t].pc = "done"
        /\ thr[t].caught = "OSError"
        /\ thr[t].io >= 1
        /\ thr[t].cbs = 1

\* C8: while auto_connect is between candidates every handle it opened is
\* closed again, and when it returns the only handle it opened that is still
\* open is the adopted transport's.
C8_FailedCandidatesClosed ==
    \A t \in Threads :
        /\ thr[t].pc = "ac_open" => \A o \in thr[t].mine : ~objs[o].fd
        /\ thr[t].pc = "ac_ret" =>
              \A o \in thr[t].mine : objs[o].fd => (thr[t].ok /\ dev = o)

\* C9: an auto_connect that returns failure (no candidates, or every
\* candidate failed to open or to answer the probe) raised nothing and
\* adopted nothing: the active transport is none of the handles it opened,
\* and the session is Disconnected unless another thread connected it.
C9_FailureLeavesDisconnected ==
    \A t \in Threads :
        (thr[t].pc = "ac_ret" /\ ~thr[t].ok) =>
            /\ thr[t].exc = "none"
            /\ dev \notin thr[t].mine
            /\ (\A u \in Threads \ {t} : thr[u].mine = {}) => dev = 0

\* auto_connect has gone through a non-empty candidate list, opened a
\* candidate that did not answer, and returned failure
C9_Witness ==
    \E t \in Threads :
        /\ thr[t].pc = "ac_ret"
        /\ ~thr[t].ok
        /\ Len(thr[t].cands) >= 1
        /\ thr[t].ci = Len(thr[t].cands)
        /\ thr[t].mine # {}
        /\ dev = 0

\* C10: an auto_connect entered while a transport is active returns True in
\* that step and changes neither the candidate list, nor any HidDevice, nor
\* the active transport, the last-reception time or the cache, and does no
\* open and no I/O.
C10_ConnectedAutoConnectIsNoOp ==
    [][\A t \in Threads :
          (thr[t].pc = "ac_enter" /\ dev # 0 /\ thr'[t] # thr[t]) =>
              /\ thr'[t].pc = "ac_ret"
              /\ thr'[t].ok
              /\ thr'[t].exc = "none"
              /\ thr'[t].io = thr[t].io
              /\ thr'[t].mine = {}
              /\ UNCHANGED <<devices, dev, objs, cache, last_rx_time, flash>>]_vars

\* auto_connect has returned True without opening anything, in a session
\* that was connected and whose cache had been filled
C10_Witness ==
    \E t \in Threads :
        /\ thr[t].pc = "ac_ret"
        /\ thr[t].ok
        /\ thr[t].mine = {}
        /\ thr[t].io = 0
        /\ dev # 0
        /\ last_rx_time = now
        /\ cache.battery_percent # 0 - 1

(***************************************************************************)
(* Properties of program_btn4_macro_string_async (Spec, MacroSpec)         *)
(***************************************************************************)
\* the worker of a macro programming has had the outcome of a chunk write
\* and the write was not acknowledged: no reply, or an error of the handle
ChunkFailed(t) ==
    /\ thr[t].op = "macro"
    /\ thr[t].pc = "ret"
    /\ ~thr[t].ac
    /\ thr[t].i = 1
    /\ (thr[t].exc # "none" \/ ~thr[t].res.ok)

\* C11: when a chunk write of a macro programming is not acknowledged, the
\* worker's next step ends the operation: it writes no further frame (no
\* later chunk, no bind), schedules the callback once with False, and leaves
\* the cache, with its macro-bound flag, and the mouse's memory as they were;
\* and a worker that has ended writes nothing more.
C11_FailedChunkAborts ==
    [][\A t \in Workers :
          /\ (ChunkFailed(t) /\ thr'[t] # thr[t])
                => /\ thr'[t].pc = "done"
                   /\ thr'[t].log = thr[t].log
                   /\ thr'[t].cbs = 1
                   /\ ~thr'[t].cbval
                   /\ idleq' = Append(idleq, [op |-> "macro", val |-> FALSE, by |-> t])
                   /\ cache' = cache
                   /\ flash' = flash
          /\ (thr[t].op = "macro" /\ thr[t].pc = "done" /\ thr'[t] # thr[t])
                => thr'[t] = IdleRec]_vars

\* a macro programming has ended on a chunk that was not acknowledged, after
\* at least one acknowledged chunk, with the flag true from an earlier run
C11_Witness ==
    \E t \in Workers :
        /\ thr[t].op = "macro"
        /\ thr[t].pc = "done"
        /\ Len(thr[t].log) \in 2 .. 39
        /\ ~thr[t].log[Len(thr[t].log)].ack
        /\ ~thr[t].cbval
        /\ cache.btn4_macro_bound

\* record[a:b] of a Python bytes object held as a sequence
Slice(record, a, b) == SubSeq(record, a + 1, b)

\* the record a macro worker programs
RecordOf(me) == build_macro_string_record(SubSeq(me.arg, 3, Len(me.arg)), me.arg[1], me.arg[2])

\* the macro worker t writes a frame of its own in this step
MacroWrites(t) ==
    /\ thr[t].op = "macro"
    /\ ~thr[t].ac
    /\ thr[t].pc = "send"
    /\ Len(thr'[t].log) = Len(thr[t].log) + 1

\* C12: the k-th frame a macro worker writes (k = 0..38) is a raw write at
\* 0x0900 + 10k of bytes [10k, min(10k + 10, 384)) of the record, and the
\* frame after these is the checked write that binds button 4; a frame is
\* written only when every frame before it was acknowledged; the worker
\* reports True only after all 40 frames; and the macro-bound flag becomes
\* true only in the step of a worker whose 40th frame, the bind, was
\* acknowledged.
C12_SuccessfulMacroWrites ==
    [][/\ \A t \in Workers :
             /\ MacroWrites(t)
                  => LET k == Len(thr[t].log)
                     IN  /\ k <= 39
                         /\ \A j \in 1 .. k : thr[t].log[j].ack
                         /\ ReqOf(thr[t]) =
                               IF k < 39
                               THEN cmd_write_0807_raw(
                                        2304 + 10 * k,
                                        Slice(RecordOf(thr[t]), 10 * k, Min(10 * k + 10, 384)))
                               ELSE cmd_write_0807_checked(BUTTON_MAP_ADDR, BTN4_BIND_DATA)
                         /\ thr'[t].log[k + 1].req = LogReq(ReqOf(thr[t]))
             /\ (thr[t].op = "macro" /\ thr'[t].pc = "done" /\ thr[t].pc # "done"
                    /\ thr'[t].cbval)
                  => /\ Len(thr'[t].log) = 40
                     /\ \A j \in 1 .. 40 : thr'[t].log[j].ack
       /\ (cache'.btn4_macro_bound /\ ~cache.btn4_macro_bound)
            => \E t \in Workers :
                  /\ thr[t].op = "macro"
                  /\ thr[t].pc = "ret"
                  /\ thr'[t].pc = "done"
                  /\ Len(thr[t].log) = 40
                  /\ thr[t].log[40].ack]_vars

\* a macro programming has reported True and its callback has run
C12_Witness ==
    \E t \in Workers :
        /\ thr[t].op = "macro"
        /\ thr[t].pc = "done"
        /\ thr[t].cbval
        /\ Len(thr[t].log) = 40
        /\ cache.btn4_macro_bound
        /\ idleq = <<>>

(***************************************************************************)
(* Properties of the LED operations (Spec)                                 *)
(***************************************************************************)
LedOps == {"led_bs", "led_mc"}

\* the frames of an LED operation
IsLedRead(req) == req = cmd_read_flash(160, 10)
IsLedConfigWrite(req) ==
    req.cmd = 7 /\ req.style = "checked" /\ req.addr = 160 /\ Len(req.data) = 7
IsLedApply(req) == req = cmd_write_0807_checked(167, <<1>>)

\* C13 as stated: an LED operation that has written its config write has
\* written exactly one apply write after it by the time it ends.
C13_ApplyFollowsConfigWrite ==
    \A t \in Workers :
        (thr[t].op \in LedOps /\ thr[t].pc = "done" /\ Len(thr[t].log) >= 2)
            => (Len(thr[t].log) = 3 /\ IsLedApply(thr[t].log[3].req))

\* C13, amended: an LED worker writes at most three frames: the config read,
\* then, the read acknowledged, the config write at 0x00A0, then the apply
\* write (0x01 at 0x00A7); when the config write's transaction returns without
\* raising, acknowledged or not, the worker goes on to the apply transaction
\* instead of ending; it reports True, and changes the cache, only in a step
\* it takes with all three frames written and both writes acknowledged.
C13_ApplyAfterReturnedConfigWrite ==
    [][\A t \in Workers :
          thr[t].op \in LedOps =>
            LET me == thr[t]
                k == Len(me.log)
            IN  /\ (me.pc = "send" /\ Len(thr'[t].log) = k + 1)
                      => /\ k <= 2
                         /\ k = 0 => IsLedRead(ReqOf(me))
                         /\ k = 1 => (me.log[1].ack /\ IsLedRead(me.log[1].req)
                                        /\ IsLedConfigWrite(ReqOf(me)))
                         /\ k = 2 => (IsLedConfigWrite(me.log[2].req)
                                        /\ IsLedApply(ReqOf(me)))
                         /\ thr'[t].log[k + 1].req = ReqOf(me)
                /\ (me.pc = "ret" /\ me.i = 2 /\ k = 2 /\ me.exc = "none" /\ thr'[t] # me)
                      => (thr'[t].pc = "req" /\ thr'[t].i = 3 /\ thr'[t].log = me.log)
                /\ (thr'[t] # me /\ (cache' # cache \/ (thr'[t].pc = "done" /\ thr'[t].cbval)))
                      => /\ me.pc = "ret"
                         /\ k = 3
                         /\ me.log[2].ack
                         /\ me.log[3].ack
                         /\ thr'[t].pc = "done"
                         /\ thr'[t].cbval]_vars

\* an LED operation has ended with its config write acknowledged and its
\* apply write not, reporting False
C13_Witness ==
    \E t \in Workers :
        /\ thr[t].op \in LedOps
        /\ thr[t].pc = "done"
        /\ Len(thr[t].log) = 3
        /\ thr[t].log[2].ack
        /\ ~thr[t].log[3].ack
        /\ thr[t].cbs = 1
        /\ ~thr[t].cbval

\* C14: the config write of set-LED-brightness/speed carries bytes 0-3 as
\* its own config read returned them, byte 4 as read when the speed argument
\* is 0, and byte 5 as read when the brightness argument is 0.
C14_UnrequestedBytesWrittenBack ==
    \A t \in Workers :
        (thr[t].op = "led_bs" /\ thr[t].pc # "done" /\ Len(thr[t].log) >= 2)
            => LET rd == thr[t].log[1].rx
                   wr == thr[t].log[2].req.data
               IN  /\ thr[t].log[1].ack
                   /\ \A j \in 1 .. 4 : wr[j] = rd[j]
                   /\ thr[t].arg[2] = 0 => wr[5] = rd[5]
                   /\ thr[t].arg[1] = 0 => wr[6] = rd[6]

\* a brightness-only operation has written a config with the new brightness
\* and the speed byte it read
C14_Witness ==
    \E t \in Workers :
        /\ thr[t].op = "led_bs"
        /\ thr[t].pc # "done"
        /\ Len(thr[t].log) >= 2
        /\ thr[t].arg = <<7, 0>>
        /\ thr[t].log[1].rx[5] = 4
        /\ thr[t].log[2].req.data[5] = 4
        /\ thr[t].log[2].req.data[6] = 6

(***************************************************************************)
(* Properties of the synchronous reads and of the clock (ReadSpec)         *)
(***************************************************************************)
\* the reply carries a record of n value bytes whose checksum byte is wrong
BadChecksum(res, n) == res.ok /\ res.data[n + 1] # checksum_0x55(SubSeq(res.data, 1, n))

\* the transaction of the tick worker that has returned is the last one of a
\* read operation, and the operation returns False: no reply, a record of
\* polling rate or button 4 with a wrong checksum, or one of the three toggle
\* reads having given None
ReadReturnsFalse(me) ==
    \/ ~me.res.ok /\ me.i # 7
    \/ me.i = 4 /\ BadChecksum(me.res, 1)
    \/ me.i = 9 /\ BadChecksum(me.res, 3)
    \/ me.i = 7 /\ (me.loc[2] = 2 \/ me.loc[3] = 2 \/ ~me.res.ok \/ BadChecksum(me.res, 1))

\* C15: a step in which a read of the tick worker returns False leaves the
\* whole cache as it was; the first two toggle reads change no cached field
\* and give None exactly when they got no reply or a record with a wrong
\* checksum, so that the three booleans are stored only after three valid
\* records.
C15_FailedReadKeepsCache ==
    [][\A t \in Workers :
          (thr[t].op = "tickw" /\ thr[t].pc = "ret" /\ thr[t].exc = "none"
             /\ thr'[t] # thr[t])
            => LET me == thr[t]
               IN  /\ ReadReturnsFalse(me) => cache' = cache
                   /\ me.i \in {2, 5, 6} => cache' = cache
                   /\ me.i \in {5, 6}
                        => ((thr'[t].loc[me.i - 3] = 2)
                              <=> (~me.res.ok \/ BadChecksum(me.res, 1)))
                   /\ me.i = 7 /\ ~ReadReturnsFalse(me)
                        => /\ cache'.ripple_control = (me.loc[2] = 1)
                           /\ cache'.angle_snap = (me.loc[3] = 1)
                           /\ cache'.motion_sync = (me.res.data[1] # 0)]_vars

\* a tick worker is past its toggle reads, in which the angle-snap record had
\* a wrong checksum and the two others said on: no boolean was stored, while
\* the polling rate read before was
C15_Witness ==
    \E t \in Workers :
        /\ thr[t].op = "tickw"
        /\ thr[t].i = 8
        /\ thr[t].loc[2] = 1
        /\ thr[t].loc[3] = 2
        /\ flash[MOTION_SYNC_ADDR] = 1
        /\ ~cache.ripple_control
        /\ ~cache.angle_snap
        /\ ~cache.motion_sync
        /\ cache.polling_hz = 1000

\* a transaction of thread t returns with a reply in this step
ReturnsReply(t) ==
    /\ thr[t].pc = "ret"
    /\ thr[t].exc = "none"
    /\ thr[t].res.ok
    /\ thr'[t] # thr[t]

\* C16: while Disconnected is_sleeping is false, and whenever the main loop
\* is free to call it right after a step in which a transaction, the probe
\* of auto_connect included, returned with a reply, it is false.
C16_AwakeAfterReply ==
    [][/\ dev' = 0 => ~is_sleeping'
       /\ \A t \in Threads :
             (ReturnsReply(t) /\ thr'[Main].pc = "idle") => ~is_sleeping']_vars

\* C17: a step in which a flash read, a battery read, a checked write or a
\* raw write returns with a reply sets last_rx_time to the time of the step,
\* whether or not the record in the reply validates; a probe that returned
\* with a reply is followed by the statement that sets it; a step in which a
\* transaction returns without a reply leaves it alone; and nothing else
\* changes it.
C17_ReplyStampsTime ==
    [][/\ \A t \in Threads :
             /\ (ReturnsReply(t) /\ ~thr[t].ac) => last_rx_time' = now
             /\ (ReturnsReply(t) /\ thr[t].ac)
                   => (thr'[t].pc = "ac_stamp" /\ dev' = thr[t].obj)
             /\ (thr[t].pc = "ac_stamp" /\ thr'[t] # thr[t]) => last_rx_time' = now
             /\ (thr[t].pc = "ret" /\ ~thr[t].res.ok /\ thr'[t] # thr[t])
                   => last_rx_time' = last_rx_time
       /\ last_rx_time' # last_rx_time
            => \E t \in Threads : ReturnsReply(t) \/ thr[t].pc = "ac_stamp"]_vars

\* more than 5 seconds after the session was connected, the tick worker's
\* polling-rate read has returned a record with a wrong checksum: the time
\* is set, the cached polling rate is not
C17_Witness ==
    \E t \in Workers :
        /\ thr[t].op = "tickw"
        /\ thr[t].i = 5
        /\ thr[t].pc = "req"
        /\ now = 7
        /\ last_rx_time = 7
        /\ cache.polling_hz = 0 - 1
        /\ cache.dpi_value = 0 - 1

(***************************************************************************)
(* Properties of the write helpers (WriteSpec)                             *)
(***************************************************************************)
\* thread t runs a checked write of more than 9 data bytes or a raw write of
\* more than 10
Oversize(t) ==
    /\ thr[t].op = "write"
    /\ thr[t].pc # "done"
    /\ \/ thr[t].arg[1] = "checked" /\ thr[t].arg[2] > 9
       \/ thr[t].arg[1] = "raw" /\ thr[t].arg[2] > 10

\* C18: a checked write of more than 9 data bytes and a raw write of more
\* than 10 raise at their first step (ValueError from the frame builder, or
\* IOError from the connection check when Disconnected), having written no
\* frame and taken no lock; the steps of the call leave the connection, the
\* handles, the mouse's memory, the reception time and the cache unchanged.
C18_OversizeWriteFailsBeforeIO ==
    [][\A t \in Workers :
          (Oversize(t) /\ thr'[t] # thr[t])
            => /\ thr[t].pc \in {"req", "ret"}
               /\ thr[t].pc = "req"
                    => /\ thr'[t].pc = "ret"
                       /\ thr'[t].exc = IF dev = 0 THEN "IOError" ELSE "ValueError"
               /\ thr[t].pc = "ret"
                    => /\ thr'[t].pc = "done"
                       /\ thr'[t].caught \in {"IOError", "ValueError"}
               /\ thr'[t].io = 0
               /\ thr'[t].log = <<>>
               /\ UNCHANGED <<dev, objs, flash, cache, last_rx_time, idleq>>]_vars

\* on a connected session a checked write of 10 data bytes has ended with
\* ValueError
C18_Witness ==
    \E t \in Workers :
        /\ thr[t].op = "write"
        /\ thr[t].pc = "done"
        /\ thr[t].caught = "ValueError"
        /\ thr[t].io = 0
        /\ dev # 0
        /\ objs[dev].fd

(***************************************************************************)
(* Properties of the completion callbacks (RaceSpec, Spec)                 *)
(***************************************************************************)
\* C19 as stated: a worker that has scheduled its callback has overtaken no
\* other worker, that is, none whose last reply was received before its own
\* had its callback still to schedule.
C19_CallbacksInReplyOrder ==
    \A t \in Workers :
        (thr[t].pc = "done" /\ thr[t].cbs = 1) => thr[t].ahead = {}

\* C20: in every step in which a worker of an asynchronous operation ends,
\* whether its writes were acknowledged, were not, or raised, it has put
\* exactly one entry with its outcome at the tail of the idle queue and has
\* run no callback itself; and an entry leaves the queue, its callback being
\* run, only from the head and only in a step of the main loop, while the
\* main loop is idle and no worker moves.
C20_CallbacksOnMainLoop ==
    [][/\ \A t \in Workers :
             (thr[t].pc # "done" /\ thr'[t].pc = "done" /\ thr[t].op \in AsyncOps)
                => /\ idleq' = Append(idleq, [op |-> thr[t].op, val |-> thr'[t].cbval,
                                              by |-> t])
                   /\ thr'[t].cbs = 1
       /\ \A t \in Workers :
             (thr'[t].cbs # thr[t].cbs /\ thr'[t].pc # "idle")
                => (thr[t].pc # "done" /\ thr'[t].pc = "done")
       /\ Len(idleq') < Len(idleq)
             => /\ idleq' = Tail(idleq)
                /\ thr[Main].pc = "idle"
                /\ thr' = thr
       /\ Len(idleq') > Len(idleq)
             => \E t \in Workers : thr[t].pc # "done" /\ thr'[t].pc = "done"]_vars

\* a worker whose write raised has ended with its callback, reporting
\* False, waiting in the idle queue
C20_Witness ==
    \E t \in Workers :
        /\ thr[t].op \in AsyncOps
        /\ thr[t].pc = "done"
        /\ thr[t].caught = "OSError"
        /\ thr[t].cbs = 1
        /\ idleq # <<>>
        /\ idleq[Len(idleq)] = [op |-> thr[t].op, val |-> FALSE, by |-> t]

(***************************************************************************)
(* Properties of the threads' use of the transport (ConnSpec, RaceSpec)    *)
(***************************************************************************)
\* C21 as stated: the GLib main loop is never inside a transaction of its
\* own: it has never written a frame and waits for no reply.
C21_MainLoopDoesNoExchange ==
    /\ thr[Main].pc \notin {"send", "recv"}
    /\ thr[Main].io = 0

\* a thread is inside the locked part of transceive_expect of HidDevice o
Inside(t, o) == thr[t].pc = "recv" /\ thr[t].obj = o

\* C22: the lock of a HidDevice is held only by a thread that is inside an
\* exchange on it; and a caller that has reached the lock, or is inside its
\* exchange, comes out of transceive_expect: with the reply, with no reply,
\* or with the exception the write or read raised, and holding no lock.
C22_ExchangeEndsAndReleases ==
    /\ [](\A o \in 1 .. Len(objs) :
            objs[o].lock # NoThread => Inside(objs[o].lock, o))
    /\ \A t \in Threads :
          (thr[t].pc \in {"send", "recv"})
            ~> (/\ thr[t].pc = "ret"
                /\ \A o \in 1 .. Len(objs) : objs[o].lock # t
                /\ thr[t].res.ok \/ thr[t].res = NoReply \/ thr[t].exc # "none")

\* a caller waits for the lock while another thread is inside its exchange
C22_Witness ==
    \E t \in Threads, u \in Threads :
        /\ t # u
        /\ thr[t].pc = "send"
        /\ Inside(u, thr[t].obj)
        /\ objs[thr[t].obj].lock = u

(***************************************************************************)
(* Properties of build_macro_string_record (RecordSpec)                    *)
(***************************************************************************)
\* the macro worker t has built its record and is about to write chunk 0
RecordBuilt(t) ==
    /\ thr[t].op = "macro"
    /\ ~thr[t].ac
    /\ thr[t].pc = "req"
    /\ thr[t].i = 1
    /\ thr[t].loc[2] = 0

TextArg(me) == SubSeq(me.arg, 3, Len(me.arg))

\* the characters of a text that map to a key, in order
MappedOf(text) == SelectSeq(text, LAMBDA c : hid_keycode_for_char(c) # <<>>)

\* C23: the record built from a text with m characters that map to a key
\* holds n = 2*min(35, m) events: byte 31 is n; the events at 32 + 5e,
\* e < n, are the press (0x81) and the release (0x41) of the first n/2
\* mapped characters in order, with their keycodes and modifiers; the
\* checksum byte follows the last event and every later byte is 0xFF.
C23_EventCount ==
    \A t \in Workers :
        RecordBuilt(t) =>
            LET text == TextArg(thr[t])
                keys == MappedOf(text)
                n == 2 * Min(35, Len(keys))
                rec == RecordOf(thr[t])
            IN  /\ Len(rec) = MACRO_RECORD_LEN
                /\ rec[32] = n
                /\ \A e \in 0 .. (n - 1) :
                      LET kc == hid_keycode_for_char(keys[(e \div 2) + 1])
                      IN  /\ rec[33 + 5 * e] = IF e % 2 = 0 THEN 129 ELSE 65
                          /\ rec[34 + 5 * e] = kc[1]
                          /\ rec[35 + 5 * e] = kc[2]
                /\ rec[33 + 5 * n] = checksum_0x55(SubSeq(rec, 32, 32 + 5 * n))
                /\ \A k \in (34 + 5 * n) .. MACRO_RECORD_LEN : rec[k] = 255

\* a record was built from a text with more than 35 mapped characters and
\* with unmapped characters among the first of them
C23_Witness ==
    \E t \in Workers :
        /\ RecordBuilt(t)
        /\ Len(MappedOf(TextArg(thr[t]))) > 35
        /\ \E i \in 1 .. 10 : hid_keycode_for_char(TextArg(thr[t])[i]) = <<>>
        /\ RecordOf(thr[t])[32] = 70

\* the delay bytes of event e of a record, as a number
DelayOf(rec, e) == rec[36 + 5 * e] * 256 + rec[37 + 5 * e]

\* C24 as stated: in a record with n > 0 events the last release event
\* (event n - 1) carries delay 0 and every earlier release event carries the
\* inter-key delay.
C24_LastReleaseDelayZero ==
    \A t \in Workers :
        RecordBuilt(t) =>
            LET rec == RecordOf(thr[t])
                n == rec[32]
                inter == Max(0, Min(65535, thr[t].arg[2]))
            IN  n > 0 =>
                  /\ DelayOf(rec, n - 1) = 0
                  /\ \A e \in 0 .. (n - 2) : e % 2 = 1 => DelayOf(rec, e) = inter

(***************************************************************************)
(* Properties of the pairing of requests and replies (LateSpec)            *)
(***************************************************************************)
\* C25 as stated: what a flash read returns is the device's answer to its
\* own request: the bytes the memory holds at the address it asked for
\* (nothing writes the memory in this session).
C25_ReplyAnswersOwnRequest ==
    \A t \in Workers :
        (thr[t].op = "tickw" /\ thr[t].pc = "ret" /\ thr[t].res.ok
         /\ ReqOf(thr[t]).style = "read")
            => thr[t].res.data =
                  [k \in 1 .. ReqOf(thr[t]).count |-> Mem(flash, ReqOf(thr[t]).addr + k - 1)]

(***************************************************************************)
(* Properties of overlapping operations (RaceSpec, LedSpec)                *)
(***************************************************************************)
\* C26 as stated: while a thread is inside an exchange on a HidDevice, from
\* its os.write to the end of its reply loop, the handle of that HidDevice
\* is open.
C26_NoCloseDuringExchange ==
    \A t \in Threads : thr[t].pc = "recv" => objs[thr[t].obj].fd

\* the LED worker t has ended reporting success: it read the config, wrote
\* it back and wrote the apply trigger, all three acknowledged
LedSucceeded(t, op) ==
    /\ thr[t].op = op
    /\ thr[t].pc = "done"
    /\ thr[t].cbval
    /\ Len(thr[t].log) = 3

\* C27 as stated: when a set_led_mode_color_async and a
\* set_led_brightness_speed_async have both reported success, the config in
\* the mouse holds the mode and colour the first wrote and the speed and
\* brightness the second wrote.
C27_BothLedChangesKept ==
    \A t \in Workers, u \in Workers :
        (LedSucceeded(t, "led_mc") /\ LedSucceeded(u, "led_bs"))
            => /\ \A k \in 1 .. 4 : flash[LED_CONFIG_ADDR + k - 1] = thr[t].log[2].req.data[k]
               /\ \A k \in 5 .. 6 : flash[LED_CONFIG_ADDR + k - 1] = thr[u].log[2].req.data[k]

(***************************************************************************)
(* Properties of set_dpi_async and read_current_dpi (DpiSpec)              *)
(***************************************************************************)
\* a set_dpi_async worker has ended reporting success: its write of
\* <<raw, raw, 0>> was acknowledged
DpiSet(u) ==
    /\ thr[u].op = "set_dpi"
    /\ thr[u].pc = "done"
    /\ thr[u].cbval
    /\ Len(thr[u].log) = 1

\* C28 as stated: when read_current_dpi sends its slot read after a set-DPI
\* has succeeded (no other write is made in this session), the slot byte the
\* mouse returns, which read_current_dpi multiplies by 100, is the raw value
\* that set-DPI wrote.
C28_SetDpiWritesSlotRead ==
    [][\A t \in Workers, u \in Workers :
          (/\ thr[t].op = "tickw" /\ thr[t].i = 3
           /\ thr[t].pc = "send" /\ thr'[t].pc = "recv"
           /\ DpiSet(u))
            => thr'[t].pend.data[1] * 100 = thr[u].log[1].req.data[1] * 100]_vars

\* C29 as stated: in the step in which a set_dpi_async worker ends with
\* success, the cached DPI becomes 100 times the raw value it wrote, a
\* multiple of 100 from 100 to 25500.
C29_CachedDpiIsStoredDpi ==
    [][\A t \in Workers :
          (thr[t].op = "set_dpi" /\ thr[t].pc = "ret" /\ thr'[t].pc = "done" /\ thr'[t].cbval)
            => /\ cache'.dpi_value = thr[t].log[1].req.data[1] * 100
               /\ cache'.dpi_value \in {100 * r : r \in 1 .. 255}]_vars

\* C30 as stated: the slot read of read_current_dpi is addressed inside the
\* table of DPI_LEVEL_COUNT slots.
C30_SlotReadInsideTable ==
    \A t \in Workers :
        (thr[t].op = "tickw" /\ thr[t].i = 3 /\ thr[t].pc \in {"send", "recv", "ret"})
            => ReqOf(thr[t]).addr \in
                  {DPI_LEVEL_BASE_ADDR + l * DPI_LEVEL_STRIDE : l \in 0 .. (DPI_LEVEL_COUNT - 1)}

====
